---- MODULE Spec2Model ----
(***************************************************************************)
(* Model of the AI travel assistant: the generation orchestrator           *)
(* (agents.py), the fallback store (config.py) and the UI-driven outer     *)
(* retry controller of the Streamlit script (app.py).                      *)
(*                                                                         *)
(* A Streamlit script run is cut into steps at the blocking calls (LLM     *)
(* call, time.sleep) so that a user event can arrive between two steps:    *)
(* the framework then abandons the running script, runs the widget         *)
(* callback and starts the script again from the top.                      *)
(***************************************************************************)
EXTENDS Integers, Sequences, FiniteSets, TLC

\* ------------------------------------------------------------------------
\* Configuration
\* ------------------------------------------------------------------------
\* app.py:108  MIN_DIAS = int(os.getenv("MIN_DIAS", 1))
MIN_DIAS == 1
\* app.py:109  MAX_DIAS = int(os.getenv("MAX_DIAS", 7)); configured small here
MAX_DIAS == 3
\* app.py:111
MAX_APP_RETRIES == 3
\* app.py:112  RETRY_DELAY_S = 2.0 s, in tenths of a second
RETRY_DELAY_S == 20
\* app.py:180  PAUSE_OVERHEAD_S = 0.2 s, in tenths of a second
PAUSE_OVERHEAD_S == 2
\* app.py:183  minimal wait 0.1 s, in tenths of a second
MIN_WAIT == 1
\* agents.py:79
MAX_JSON_RETRIES == 5
\* agents.py:33  GEMINI_RETRY_DELAY_MS = 1000 ms, in tenths of a second
GEMINI_RETRY_DELAY_S == 10

\* Time that may pass between the end of one script run and the moment the
\* next one reads the clock (app.py:178), in tenths of a second.
Latencies == {0, 5, 25}

\* None
NULL == [null |-> TRUE]

\* Values the user can give to the three input widgets (app.py:151-169).
Destinations == {"Madrid, Spain", "Lisbon, Portugal"}
Themes == {"Historical and Cultural", "Food and Leisure"}
DayCounts == MIN_DIAS..MAX_DIAS

\* ------------------------------------------------------------------------
\* Strings that the claims look into are sequences of characters
\* ------------------------------------------------------------------------
Digit(d) ==
    CASE d = 0 -> "0" [] d = 1 -> "1" [] d = 2 -> "2" [] d = 3 -> "3"
      [] d = 4 -> "4" [] d = 5 -> "5" [] d = 6 -> "6" [] d = 7 -> "7"
      [] d = 8 -> "8" [] d = 9 -> "9"

\* ordinal of the characters that occur in a date
Ord(c) ==
    CASE c = "-" -> 45
      [] c = "0" -> 48 [] c = "1" -> 49 [] c = "2" -> 50 [] c = "3" -> 51
      [] c = "4" -> 52 [] c = "5" -> 53 [] c = "6" -> 54 [] c = "7" -> 55
      [] c = "8" -> 56 [] c = "9" -> 57

\* Python str(n) for n >= 0
RECURSIVE str(_)
str(n) == IF n < 10 THEN <<Digit(n)>> ELSE str(n \div 10) \o <<Digit(n % 10)>>

\* str(i + 1) without the zfill
zfill_NoPad(s, w) == s

\* Python s.zfill(w) for a string of digits
RECURSIVE zfill(_, _)
zfill(s, w) == IF Len(s) >= w THEN s ELSE zfill(<<"0">> \o s, w)

\* Python's < on strings (lexicographic on code points)
RECURSIVE StrLess(_, _)
StrLess(a, b) ==
    IF b = <<>> THEN FALSE
    ELSE IF a = <<>> THEN TRUE
    ELSE IF Ord(Head(a)) # Ord(Head(b)) THEN Ord(Head(a)) < Ord(Head(b))
    ELSE StrLess(Tail(a), Tail(b))

DatePrefix == <<"2", "0", "2", "5", "-", "0", "1", "-">>

\* ------------------------------------------------------------------------
\* data_models.py
\* ------------------------------------------------------------------------
DayFields == {"date", "day_name", "activities", "logistics_between_activities"}
TravelItineraryFields == {"destination", "total_days", "main_theme", "daily_itinerary"}

\* Day.model_validate(d): the Day built from the dict, NULL when it raises
DayValidate(d) ==
    IF DayFields \subseteq DOMAIN d
    THEN [date |-> d.date, day_name |-> d.day_name, activities |-> d.activities,
          logistics_between_activities |-> d.logistics_between_activities]
    ELSE NULL

\* Day.model_dump()
DayDump(day) == [k \in DayFields |-> day[k]]

\* TravelItinerary.model_validate(data): the itinerary, NULL when it raises
TravelItineraryValidate(data) ==
    IF /\ TravelItineraryFields \subseteq DOMAIN data
       /\ \A i \in 1..Len(data.daily_itinerary) :
              DayValidate(data.daily_itinerary[i]) # NULL
    THEN [destination |-> data.destination, total_days |-> data.total_days,
          main_theme |-> data.main_theme,
          daily_itinerary |-> [i \in 1..Len(data.daily_itinerary) |->
                                  DayValidate(data.daily_itinerary[i])]]
    ELSE NULL

\* ------------------------------------------------------------------------
\* The bundled fallback document (fallback_itinerary.json)
\* ------------------------------------------------------------------------
Museum == [name |-> "Louvre", short_description |-> "Museum", location |-> "Rue de Rivoli",
           start_time |-> "09:00", end_time |-> "12:00", estimated_cost |-> "17 EUR"]
Tower  == [name |-> "Eiffel Tower", short_description |-> "Tower", location |-> "Champ de Mars",
           start_time |-> "14:00", end_time |-> "16:00", estimated_cost |-> "Free"]
Metro  == [transport_type |-> "Metro L1", estimated_duration |-> "20 min",
           additional_notes |-> "Buy metro ticket"]

DocDay(i) ==
    [date |-> <<"2", "0", "2", "4", "-", "0", "5", "-", "1", Digit(i)>>,
     day_name |-> IF i = 1 THEN "Classic Paris" ELSE "Left Bank",
     activities |-> IF i = 1 THEN <<Museum, Tower>> ELSE <<Tower>>,
     logistics_between_activities |-> IF i = 1 THEN <<Metro>> ELSE <<>>]

Doc(n) == [destination |-> "Paris, France", total_days |-> n,
           main_theme |-> "Classic", daily_itinerary |-> [i \in 1..n |-> DocDay(i)]]

\* The states the file can be in: absent, not JSON, JSON that is not a
\* TravelItinerary, a TravelItinerary with 0, 1 or 2 days.
FallbackFiles ==
    { [exists |-> FALSE, json_ok |-> FALSE, data |-> NULL],
      [exists |-> TRUE,  json_ok |-> FALSE, data |-> NULL],
      [exists |-> TRUE,  json_ok |-> TRUE,  data |-> [destination |-> "Paris, France"]],
      [exists |-> TRUE,  json_ok |-> TRUE,  data |-> Doc(0)],
      [exists |-> TRUE,  json_ok |-> TRUE,  data |-> Doc(1)],
      [exists |-> TRUE,  json_ok |-> TRUE,  data |-> Doc(2)] }

\* config.py load_fallback_itinerary
load_fallback_itinerary(file) ==
    IF file.exists
    THEN IF file.json_ok THEN TravelItineraryValidate(file.data) ELSE NULL
    ELSE NULL

\* ------------------------------------------------------------------------
\* agents.py: the two fallback expansions
\* ------------------------------------------------------------------------
\* agents.py:115-142 without line 134 (total_days keeps the document's value)
QuotaFallback_KeepsTotalDays(file, destination, days, theme) ==
    LET fallback_data == load_fallback_itinerary(file) IN
    IF fallback_data # NULL /\ fallback_data.daily_itinerary # <<>>
    THEN LET template_day_dict == DayDump(fallback_data.daily_itinerary[1])
             day_dict(i) ==
                 [template_day_dict EXCEPT
                    !.day_name = "Day " \o ToString(i + 1) \o ": Demo based on "
                                   \o fallback_data.daily_itinerary[1].day_name,
                    !.date = DatePrefix \o zfill(str(i + 1), 2)]
             new_itinerary == [k \in 1..days |-> DayValidate(day_dict(k - 1))]
         IN [fallback_data EXCEPT !.daily_itinerary = new_itinerary,
                                  !.destination = destination,
                                  !.main_theme = "[MOCK] " \o theme]
    ELSE NULL

\* agents.py:115-142, the ResourceExhausted branch of run_planning_agent_gemini
QuotaFallback(file, destination, days, theme) ==
    LET fallback_data == load_fallback_itinerary(file) IN
    IF fallback_data # NULL /\ fallback_data.daily_itinerary # <<>>
    THEN LET template_day_dict == DayDump(fallback_data.daily_itinerary[1])
             day_dict(i) ==
                 [template_day_dict EXCEPT
                    !.day_name = "Day " \o ToString(i + 1) \o ": Demo based on "
                                   \o fallback_data.daily_itinerary[1].day_name,
                    !.date = DatePrefix \o zfill(str(i + 1), 2)]
             new_itinerary == [k \in 1..days |-> DayValidate(day_dict(k - 1))]
         IN IF \E k \in 1..days : new_itinerary[k] = NULL
            THEN NULL
            ELSE [fallback_data EXCEPT !.daily_itinerary = new_itinerary,
                                       !.total_days = days,
                                       !.destination = destination,
                                       !.main_theme = "[MOCK] " \o theme]
    ELSE NULL

\* agents.py:150-177 with line 155 testing fallback_data only: a document
\* without days is handed back as it is
get_mock_itinerary_with_expansion_Unexpanded(file, destination, days, theme) ==
    LET fallback_data == load_fallback_itinerary(file) IN
    IF fallback_data # NULL
    THEN IF fallback_data.daily_itinerary = <<>>
         THEN fallback_data
         ELSE LET template_day_dict == DayDump(fallback_data.daily_itinerary[1])
                  day_dict(i) ==
                      [template_day_dict EXCEPT
                         !.day_name = "Day " \o ToString(i + 1) \o ": DEMO (JSON Error Fallback)",
                         !.date = DatePrefix \o zfill(str(i + 1), 2)]
                  new_itinerary == [k \in 1..days |-> DayValidate(day_dict(k - 1))]
              IN [fallback_data EXCEPT !.daily_itinerary = new_itinerary,
                                       !.total_days = days,
                                       !.destination = destination,
                                       !.main_theme = "[MOCK/RETRY FAIL] " \o theme]
    ELSE NULL

\* agents.py:150-177 with line 174 leaving the theme unlabelled
get_mock_itinerary_with_expansion_NoLabel(file, destination, days, theme) ==
    LET fallback_data == load_fallback_itinerary(file) IN
    IF fallback_data # NULL /\ fallback_data.daily_itinerary # <<>>
    THEN LET template_day_dict == DayDump(fallback_data.daily_itinerary[1])
             day_dict(i) ==
                 [template_day_dict EXCEPT
                    !.day_name = "Day " \o ToString(i + 1) \o ": DEMO (JSON Error Fallback)",
                    !.date = DatePrefix \o zfill(str(i + 1), 2)]
             new_itinerary == [k \in 1..days |-> DayValidate(day_dict(k - 1))]
         IN [fallback_data EXCEPT !.daily_itinerary = new_itinerary,
                                  !.total_days = days,
                                  !.destination = destination,
                                  !.main_theme = theme]
    ELSE NULL

\* agents.py:150-177
get_mock_itinerary_with_expansion(file, destination, days, theme) ==
    LET fallback_data == load_fallback_itinerary(file) IN
    IF fallback_data # NULL /\ fallback_data.daily_itinerary # <<>>
    THEN LET template_day_dict == DayDump(fallback_data.daily_itinerary[1])
             day_dict(i) ==
                 [template_day_dict EXCEPT
                    !.day_name = "Day " \o ToString(i + 1) \o ": DEMO (JSON Error Fallback)",
                    !.date = DatePrefix \o zfill(str(i + 1), 2)]
             new_itinerary == [k \in 1..days |-> DayValidate(day_dict(k - 1))]
         IN IF \E k \in 1..days : new_itinerary[k] = NULL
            THEN NULL
            ELSE [fallback_data EXCEPT !.daily_itinerary = new_itinerary,
                                       !.total_days = days,
                                       !.destination = destination,
                                       !.main_theme = "[MOCK/RETRY FAIL] " \o theme]
    ELSE NULL

\* ------------------------------------------------------------------------
\* The LLM as seen by run_planning_agent_gemini (agents.py:87-94)
\* ------------------------------------------------------------------------
Request(destination, days, theme) ==
    [destination |-> destination, days |-> days, theme |-> theme]

LLMDay(i) ==
    [date |-> <<"2", "0", "2", "6", "-", "0", "3", "-", "0", Digit(i)>>,
     day_name |-> "Old Town " \o ToString(i),
     activities |-> <<Museum>>,
     logistics_between_activities |-> <<>>]

LLMItinerary(destination, n, theme) ==
    [destination |-> destination, total_days |-> n, main_theme |-> theme,
     daily_itinerary |-> [i \in 1..n |-> LLMDay(i)]]

\* What one generate_content call can come back with for a request: one of
\* three exceptions, or a text that is not JSON, JSON that is not a
\* TravelItinerary, or a TravelItinerary (the schema does not tie its fields
\* to the request: it may hold another number of days or another theme).
LLMReplies(req) ==
    { [kind |-> "ServiceUnavailable", json_ok |-> FALSE, data |-> NULL],
      [kind |-> "ResourceExhausted",  json_ok |-> FALSE, data |-> NULL],
      [kind |-> "Exception",          json_ok |-> FALSE, data |-> NULL],
      [kind |-> "text", json_ok |-> FALSE, data |-> NULL],
      [kind |-> "text", json_ok |-> TRUE,  data |-> [destination |-> req.destination]] }
    \cup
    { [kind |-> "text", json_ok |-> TRUE, data |-> LLMItinerary(req.destination, n, t)] :
          n \in {req.days - 1, req.days}, t \in Themes }

\* TravelItinerary.model_validate_json(text), NULL when it raises (agents.py:94)
model_validate_json(reply) ==
    IF reply.json_ok THEN TravelItineraryValidate(reply.data) ELSE NULL

\* Which branch of the try statement of agents.py:86-146 a reply takes
Branch(reply) ==
    CASE reply.kind = "ServiceUnavailable" -> "ServiceUnavailable"
      [] reply.kind = "ResourceExhausted" -> "ResourceExhausted"
      [] reply.kind = "Exception" -> "Exception"
      [] OTHER -> IF model_validate_json(reply) # NULL THEN "return" ELSE "Exception"

\* agents.py:100 without the - 1
InnerRetryLeft_OffByOne(att) == att < MAX_JSON_RETRIES

\* agents.py:100 with one budget for both ladders
InnerRetryLeft_Merged(att) == att < MAX_APP_RETRIES * MAX_JSON_RETRIES - 1

\* agents.py:100
InnerRetryLeft(att) == att < MAX_JSON_RETRIES - 1

\* agents.py:144-146 handled like the 503 branch
Handler_ExceptionRetried(b, att) ==
    CASE b = "return" -> "return"
      [] b = "ResourceExhausted" -> "fallback"
      [] OTHER -> IF att < MAX_JSON_RETRIES - 1 THEN "retry" ELSE "null"

\* agents.py:97 without the return: the loop goes on after a valid response
Handler_SuccessContinues(b, att) ==
    CASE b = "return" -> IF att < MAX_JSON_RETRIES - 1 THEN "retry" ELSE "return"
      [] b = "ServiceUnavailable" -> IF att < MAX_JSON_RETRIES - 1 THEN "retry" ELSE "null"
      [] b = "ResourceExhausted" -> "fallback"
      [] OTHER -> "raise"

\* agents.py:96-146: what the function does after a call that took branch b
\* in attempt att: return the parsed itinerary, sleep and retry, return None,
\* build the quota fallback, or raise TransientRetryError
Handler(b, att) ==
    CASE b = "return" -> "return"
      [] b = "ServiceUnavailable" -> IF InnerRetryLeft(att) THEN "retry" ELSE "null"
      [] b = "ResourceExhausted" -> "fallback"
      [] OTHER -> "raise"

\* app.py:217 with <= for <
OuterRetryLeft_OffByOne(count) == count <= MAX_APP_RETRIES

\* app.py:217
OuterRetryLeft(count) == count < MAX_APP_RETRIES

\* ------------------------------------------------------------------------
\* Environment of the process
\* ------------------------------------------------------------------------
\* GEMINI_API_KEY and GEMINI_MODEL of the environment, whether
\* genai.Client(...) succeeds in config.py and in agents.py, and whether the
\* import of google.cloud.texttospeech succeeded (agents.py:22-26).
Envs ==
    { [GEMINI_API_KEY |-> "key", GEMINI_MODEL |-> "gemini-2.5-flash", config_client |-> TRUE,
       agents_client |-> TRUE, GCP_TTS_AVAILABLE |-> TRUE],
      [GEMINI_API_KEY |-> "key", GEMINI_MODEL |-> "gemini-2.5-flash", config_client |-> TRUE,
       agents_client |-> FALSE, GCP_TTS_AVAILABLE |-> TRUE],
      [GEMINI_API_KEY |-> "x",   GEMINI_MODEL |-> "gemini-2.5-flash", config_client |-> TRUE,
       agents_client |-> TRUE, GCP_TTS_AVAILABLE |-> TRUE],
      [GEMINI_API_KEY |-> "key", GEMINI_MODEL |-> "", config_client |-> TRUE,
       agents_client |-> TRUE, GCP_TTS_AVAILABLE |-> TRUE] }

\* The same environments, with and without the text-to-speech library
FnEnvs == Envs \cup { [e EXCEPT !.GCP_TTS_AVAILABLE = FALSE] : e \in Envs }

\* config.py:14-29, the GEMINI_MODEL that app.py imports; NULL is None
ConfigGeminiModel(e) ==
    IF e.GEMINI_MODEL # "" /\ e.GEMINI_API_KEY # "" /\ e.GEMINI_API_KEY # "x" /\ e.config_client
    THEN [model |-> e.GEMINI_MODEL]
    ELSE NULL

\* agents.py:36-48 with the except clause of lines 43-45 missing
AgentsClient_IgnoresInit(e) ==
    e.GEMINI_API_KEY # "" /\ e.GEMINI_API_KEY # "x"

\* agents.py:36-48, TRUE when client is not None
AgentsClient(e) ==
    e.GEMINI_API_KEY # "" /\ e.GEMINI_API_KEY # "x" /\ e.agents_client

\* agents.py:31, the GEMINI_MODEL of agents.py: os.getenv with a default, so
\* never None
AgentsGeminiModel(e) == [model |-> e.GEMINI_MODEL]

\* ------------------------------------------------------------------------
\* State
\* ------------------------------------------------------------------------
VARIABLES
    env,                  \* process environment, fixed at start
    fallback_file,        \* fallback_itinerary.json on disk
    itinerary_generated,  \* st.session_state[...]
    itinerary_data,
    app_retry_count,
    generate_triggered,
    delay_until,          \* time left until the stored deadline, 0 when passed or unset
    dest_input,
    days_input,
    theme_input,
    audio,                \* audio_day_<i> entries, NULL when absent
    pc,                   \* where the script stands
    attempt,              \* loop variable of agents.py:81
    inv,                  \* the current or last invocation of run_planning_agent_gemini
    gen,                  \* what the current user-triggered generation has done so far
    waited,               \* time since the previous script run ended, set when a
                          \* generating run has passed app.py:178-188
    call                  \* the function called on its own by the last step, with
                          \* its arguments and what it did; in the application NoCall,
                          \* or, when the session is started counting, the number of
                          \* generate_content calls of agents.py:88 since the last
                          \* user event

vars == <<env, fallback_file, itinerary_generated, itinerary_data, app_retry_count,
          generate_triggered, delay_until, dest_input, days_input, theme_input,
          audio, pc, attempt, inv, gen, waited, call>>

session == <<itinerary_generated, itinerary_data, app_retry_count, generate_triggered,
             delay_until, audio>>
inputs == <<dest_input, days_input, theme_input>>

NoInv == [status |-> "none", request |-> Request("", 0, ""), calls |-> <<>>,
          waits |-> 0, loads |-> 0, ret |-> NULL]
NoGen == [invocations |-> 0, catches |-> 0, restarts |-> 0, mocks |-> 0,
          mock_ret |-> NULL]

NoAudio == [i \in 0..(MAX_DIAS - 1) |-> NULL]

NoCall == [fn |-> "none"]

\* The count of the calls of client.models.generate_content (agents.py:88)
Counting(n) == [fn |-> "generate_content", n |-> n]

\* a widget callback starts the count again
CountRestarted(c) == IF c = NoCall THEN NoCall ELSE Counting(0)

\* agents.py:88 has been called once more
CountCalled(c) == IF c = NoCall THEN NoCall ELSE Counting(c.n + 1)

\* app.py:125-134
Init ==
    /\ env \in Envs
    /\ fallback_file \in FallbackFiles
    /\ itinerary_generated = FALSE
    /\ itinerary_data = NULL
    /\ app_retry_count = 0
    /\ generate_triggered = FALSE
    /\ delay_until = 0
    /\ dest_input = "Madrid, Spain"
    /\ days_input = (MIN_DIAS + MAX_DIAS) \div 2
    /\ theme_input = "Historical and Cultural"
    /\ audio = NoAudio
    /\ pc = "idle"
    /\ attempt = 0
    /\ inv = NoInv
    /\ gen = NoGen
    /\ waited = 0
    /\ call = NoCall

\* ------------------------------------------------------------------------
\* Widget callbacks (app.py)
\* ------------------------------------------------------------------------
\* app.py:89-101 without line 97
reset_generation_KeepsTrigger ==
    /\ itinerary_generated' = FALSE
    /\ itinerary_data' = NULL
    /\ audio' = NoAudio
    /\ UNCHANGED <<generate_triggered, app_retry_count, delay_until>>

\* app.py:89-101 without lines 95 and 96
reset_generation_KeepsResult ==
    /\ generate_triggered' = FALSE
    /\ audio' = NoAudio
    /\ UNCHANGED <<itinerary_generated, itinerary_data, app_retry_count, delay_until>>

\* app.py:89-101
reset_generation ==
    /\ itinerary_generated' = FALSE
    /\ itinerary_data' = NULL
    /\ generate_triggered' = FALSE
    /\ audio' = NoAudio
    /\ UNCHANGED <<app_retry_count, delay_until>>

\* app.py:137-143 without line 143
trigger_generation_KeepsCount ==
    /\ generate_triggered' = TRUE
    /\ itinerary_generated' = FALSE
    /\ itinerary_data' = NULL
    /\ UNCHANGED <<app_retry_count, delay_until, audio>>

\* app.py:137-143 without lines 141 and 142
trigger_generation_KeepsResult ==
    /\ generate_triggered' = TRUE
    /\ app_retry_count' = 0
    /\ UNCHANGED <<itinerary_generated, itinerary_data, delay_until, audio>>

\* app.py:137-143
trigger_generation ==
    /\ generate_triggered' = TRUE
    /\ itinerary_generated' = FALSE
    /\ itinerary_data' = NULL
    /\ app_retry_count' = 0
    /\ UNCHANGED <<delay_until, audio>>

\* The user changes one of the three inputs (app.py:151-169, on_change).
\* A script that is running is abandoned; the callback runs, then the script
\* starts again.
ChangeInput ==
    /\ \E d \in Destinations, n \in DayCounts, t \in Themes :
          /\ \/ d # dest_input /\ n = days_input /\ t = theme_input
             \/ d = dest_input /\ n # days_input /\ t = theme_input
             \/ d = dest_input /\ n = days_input /\ t # theme_input
          /\ dest_input' = d
          /\ days_input' = n
          /\ theme_input' = t
    /\ reset_generation
    /\ pc' = "run"
    /\ attempt' = 0
    /\ inv' = NoInv
    /\ gen' = NoGen
    /\ waited' = 0
    /\ call' = CountRestarted(call)
    /\ UNCHANGED <<env, fallback_file>>

\* The user clicks "Generate Itinerary" (app.py:172, on_click).
ClickGenerate ==
    /\ trigger_generation
    /\ pc' = "run"
    /\ attempt' = 0
    /\ inv' = NoInv
    /\ gen' = NoGen
    /\ waited' = 0
    /\ call' = CountRestarted(call)
    /\ UNCHANGED <<env, fallback_file, inputs>>

\* ------------------------------------------------------------------------
\* The script body (app.py:176-241) calling run_planning_agent_gemini
\* ------------------------------------------------------------------------
\* app.py:239-241 rerunning instead of ending the request
Finish_NullRestarts(result) ==
    IF result # NULL
    THEN /\ itinerary_data' = result
         /\ itinerary_generated' = TRUE
         /\ app_retry_count' = 0
         /\ generate_triggered' = FALSE
         /\ pc' = "run"
    ELSE /\ pc' = "run"
         /\ UNCHANGED <<itinerary_data, itinerary_generated, generate_triggered,
                        app_retry_count>>

\* app.py:230-241 without line 240
Finish_NullKeepsTrigger(result) ==
    IF result # NULL
    THEN /\ itinerary_data' = result
         /\ itinerary_generated' = TRUE
         /\ app_retry_count' = 0
         /\ generate_triggered' = FALSE
         /\ pc' = "run"
    ELSE /\ app_retry_count' = 0
         /\ pc' = "idle"
         /\ UNCHANGED <<generate_triggered, itinerary_data, itinerary_generated>>

\* app.py:230-241: what main does with the value it holds in itinerary_data
Finish(result) ==
    IF result # NULL
    THEN /\ itinerary_data' = result
         /\ itinerary_generated' = TRUE
         /\ app_retry_count' = 0
         /\ generate_triggered' = FALSE
         /\ pc' = "run"                      \* st.rerun(), app.py:237
    ELSE /\ generate_triggered' = FALSE
         /\ app_retry_count' = 0
         /\ pc' = "idle"
         /\ UNCHANGED <<itinerary_data, itinerary_generated>>

\* app.py:214-222: except TransientRetryError, up to the call of the mock
Catch ==
    /\ app_retry_count' = app_retry_count + 1
    /\ IF OuterRetryLeft(app_retry_count + 1)
       THEN /\ delay_until' = RETRY_DELAY_S
            /\ pc' = "run"                   \* st.rerun(), app.py:220
            /\ gen' = [gen EXCEPT !.catches = @ + 1, !.restarts = @ + 1]
       ELSE /\ pc' = "exhausted"
            /\ gen' = [gen EXCEPT !.catches = @ + 1]
            /\ UNCHANGED delay_until
    /\ UNCHANGED <<itinerary_data, itinerary_generated, generate_triggered>>

\* app.py:178-188 without the sleep
WaitTime_NoSleep(left) == 0

\* app.py:178-188: the wait before a scheduled retry; left is delay_until - now
WaitTime(left) ==
    IF left > 0
    THEN IF left + PAUSE_OVERHEAD_S < MIN_WAIT THEN MIN_WAIT ELSE left + PAUSE_OVERHEAD_S
    ELSE 0

\* A script run starts (after the callbacks, if any): app.py:176-204 and
\* agents.py:57-79, up to the first LLM call.
RunScript ==
    /\ pc = "run"
    /\ IF ~generate_triggered
       THEN /\ pc' = "idle"                  \* only the display, app.py:245-261
            /\ waited' = 0
            /\ UNCHANGED <<session, attempt, inv, gen>>
       ELSE /\ \E elapsed \in Latencies :
                 LET left == IF delay_until > elapsed THEN delay_until - elapsed ELSE 0
                 IN  waited' = elapsed + WaitTime(left)
            /\ gen' = [gen EXCEPT !.invocations =
                             IF ConfigGeminiModel(env) = NULL THEN @ ELSE @ + 1]
            /\ delay_until' = 0
            /\ itinerary_data' = IF app_retry_count = 0 THEN NULL ELSE itinerary_data
            /\ attempt' = 0
            /\ UNCHANGED <<itinerary_generated, audio>>
            /\ IF ConfigGeminiModel(env) = NULL
               THEN /\ generate_triggered' = FALSE       \* app.py:200-203
                    /\ app_retry_count' = 0
                    /\ pc' = "idle"
                    /\ UNCHANGED inv
               ELSE LET start == [status |-> "running",
                                  request |-> Request(dest_input, days_input, theme_input),
                                  calls |-> <<>>, waits |-> 0, loads |-> 0, ret |-> NULL]
                    IN  IF ~AgentsClient(env)
                        THEN /\ inv' = [start EXCEPT !.status = "returned"]  \* agents.py:60-62
                             /\ generate_triggered' = FALSE                  \* app.py:239-241
                             /\ app_retry_count' = 0
                             /\ pc' = "idle"
                        ELSE /\ inv' = start
                             /\ pc' = "attempt"
                             /\ UNCHANGED <<generate_triggered, app_retry_count>>
    /\ UNCHANGED <<env, fallback_file, inputs>>
    /\ call' = call

\* One pass through the try statement of agents.py:86-146, and what main
\* does when the function returns or raises (app.py:206-241).
LLMCall ==
    /\ pc = "attempt"
    /\ \E reply \in LLMReplies(inv.request) :
         LET b == Branch(reply)
             parsed == IF reply.kind = "text" THEN model_validate_json(reply) ELSE NULL
             called == [inv EXCEPT !.calls = Append(@, [request |-> inv.request,
                                                        branch |-> b, parsed |-> parsed])]
             h == Handler(b, attempt)
         IN  CASE h = "return" ->
                    /\ inv' = [called EXCEPT !.status = "returned", !.ret = parsed]
                    /\ Finish(parsed)
                    /\ UNCHANGED <<delay_until, attempt, gen>>
               [] h = "retry" ->
                    /\ inv' = called
                    /\ pc' = "sleep"
                    /\ UNCHANGED <<itinerary_generated, itinerary_data, app_retry_count,
                                   generate_triggered, delay_until, attempt, gen>>
               [] h = "null" ->
                    /\ inv' = [called EXCEPT !.status = "returned"]
                    /\ Finish(NULL)
                    /\ UNCHANGED <<delay_until, attempt, gen>>
               [] h = "fallback" ->
                    LET r == QuotaFallback(fallback_file, inv.request.destination,
                                           inv.request.days, inv.request.theme)
                    IN  /\ inv' = [called EXCEPT !.status = "returned", !.ret = r,
                                                 !.loads = @ + 1]
                        /\ Finish(r)
                        /\ UNCHANGED <<delay_until, attempt, gen>>
               [] OTHER ->
                    /\ inv' = [called EXCEPT !.status = "raised"]
                    /\ Catch
                    /\ UNCHANGED attempt
    /\ waited' = 0
    /\ call' = CountCalled(call)
    /\ UNCHANGED <<env, fallback_file, inputs, audio>>

\* agents.py:106-107: time.sleep(GEMINI_RETRY_DELAY_S); continue
Sleep ==
    /\ pc = "sleep"
    /\ inv' = [inv EXCEPT !.waits = @ + 1]
    /\ attempt' = attempt + 1
    /\ pc' = "attempt"
    /\ waited' = 0
    /\ call' = call
    /\ UNCHANGED <<env, fallback_file, session, inputs, gen>>

\* app.py:222-241: the outer retries are spent, the mock is the result
Mock ==
    /\ pc = "exhausted"
    /\ LET r == get_mock_itinerary_with_expansion(fallback_file, inv.request.destination,
                                                  inv.request.days, inv.request.theme)
       IN  /\ Finish(r)
           /\ gen' = [gen EXCEPT !.mocks = @ + 1, !.mock_ret = r]
    /\ waited' = 0
    /\ call' = call
    /\ UNCHANGED <<env, fallback_file, inputs, delay_until, audio, attempt, inv>>

\* ------------------------------------------------------------------------
\* Audio (app.py:62-79)
\* ------------------------------------------------------------------------
\* The bytes generate_daily_summary_audio returns for a day when it succeeds
AudioBytes(day_data) == [mp3_of |-> day_data.day_name]

\* agents.py:227
MAX_TTS_RETRIES == 2

\* What the generate_content call of agents.py:215-219 can come back with:
\* a response with a text, a response whose text is None, or an exception
SummaryReplies(day_data) ==
    { [kind |-> "text", text |-> [str |-> "Good morning! " \o day_data.day_name]],
      [kind |-> "text", text |-> NULL],
      [kind |-> "ServiceUnavailable", text |-> NULL],
      [kind |-> "ResourceExhausted", text |-> NULL],
      [kind |-> "Exception", text |-> NULL] }

\* What one synthesize_speech call (agents.py:245-247) can come back with:
\* the audio, a 503, the 403 of a disabled API, or another exception
TTSReplies(day_data) ==
    { [kind |-> "audio", audio_content |-> AudioBytes(day_data)],
      [kind |-> "ServiceUnavailable", audio_content |-> NULL],
      [kind |-> "Forbidden403", audio_content |-> NULL],
      [kind |-> "Exception", audio_content |-> NULL] }

\* the replies the service gives to the first, second, ... call
TTSReplySeqs(day_data) == [1..MAX_TTS_RETRIES -> TTSReplies(day_data)]

\* agents.py:214-223 with the except clause missing: the function goes on
SummaryFails_Ignored(reply) == FALSE

\* agents.py:214-223: the try statement ends in the except clause
\* (response.text.strip() raises when text is None)
SummaryFails(reply) == reply.kind # "text" \/ reply.text = NULL

\* agents.py:229-264 with every exception handled like the 503
TTSHandler_ExceptionRetried(kind, att) ==
    CASE kind = "audio" -> "return"
      [] OTHER -> IF att = MAX_TTS_RETRIES - 1 THEN "null" ELSE "continue"

\* agents.py:229-264: what the loop does after a call that came back with
\* kind in attempt att
TTSHandler(kind, att) ==
    CASE kind = "audio" -> "return"
      [] kind = "ServiceUnavailable" ->
            IF att = MAX_TTS_RETRIES - 1 THEN "null" ELSE "continue"
      [] OTHER -> "null"

\* agents.py:229-266: the loop from attempt att on; trace lists the outbound
\* calls and the sleeps made so far (the loop makes no sleep)
RECURSIVE TTSLoop(_, _, _)
TTSLoop(att, tts, trace) ==
    IF att >= MAX_TTS_RETRIES
    THEN [trace |-> trace, ret |-> NULL]
    ELSE LET reply == tts[att + 1]
             t == Append(trace, [op |-> "tts", attempt |-> att, outcome |-> reply.kind])
             h == TTSHandler(reply.kind, att)
         IN  CASE h = "return" -> [trace |-> t, ret |-> reply.audio_content]
               [] h = "continue" -> TTSLoop(att + 1, tts, t)
               [] OTHER -> [trace |-> t, ret |-> NULL]

\* agents.py:180-266
generate_daily_summary_audio(e, day_data, summary_reply, tts) ==
    IF ~e.GCP_TTS_AVAILABLE
    THEN [trace |-> <<>>, ret |-> NULL]
    ELSE IF ~AgentsClient(e) \/ AgentsGeminiModel(e) = NULL
    THEN [trace |-> <<>>, ret |-> NULL]
    ELSE LET t == <<[op |-> "llm", attempt |-> 0, outcome |-> summary_reply.kind]>>
         IN  IF SummaryFails(summary_reply)
             THEN [trace |-> t, ret |-> NULL]
             ELSE TTSLoop(0, tts, t)

\* the values generate_daily_summary_audio can return for a day, over all
\* the replies of the two services
AudioResults(e, day_data) ==
    { generate_daily_summary_audio(e, day_data, summary_reply, tts).ret :
          summary_reply \in SummaryReplies(day_data), tts \in TTSReplySeqs(day_data) }

\* app.py:62-79 without the test of line 68: the button is always there
GenerateAudioDay_NoCacheCheck(i) ==
    /\ pc = "idle"
    /\ itinerary_generated
    /\ itinerary_data # NULL
    /\ i < Len(itinerary_data.daily_itinerary)
    /\ LET day_data == itinerary_data.daily_itinerary[i + 1] IN
         /\ day_data.activities # <<>>
         /\ \E audio_bytes \in AudioResults(env, day_data) :
              IF audio_bytes # NULL
              THEN /\ audio' = [audio EXCEPT ![i] = audio_bytes]
                   /\ pc' = "run"
              ELSE UNCHANGED <<audio, pc>>
    /\ waited' = 0
    /\ call' = call
    /\ UNCHANGED <<env, fallback_file, itinerary_generated, itinerary_data, app_retry_count,
                   generate_triggered, delay_until, inputs, attempt, inv, gen>>

\* The user clicks "Generate Audio Summary" on the tab of day i.
GenerateAudioDay(i) ==
    /\ pc = "idle"
    /\ itinerary_generated
    /\ itinerary_data # NULL
    /\ i < Len(itinerary_data.daily_itinerary)
    /\ LET day_data == itinerary_data.daily_itinerary[i + 1] IN
         /\ day_data.activities # <<>>          \* app.py:57-60, 84
         /\ audio[i] = NULL                      \* app.py:68
         /\ \E audio_bytes \in AudioResults(env, day_data) :
              IF audio_bytes # NULL              \* the bytes of a reply are not empty
              THEN /\ audio' = [audio EXCEPT ![i] = audio_bytes]
                   /\ pc' = "run"                \* st.rerun(), app.py:75
              ELSE UNCHANGED <<audio, pc>>
    /\ waited' = 0
    /\ call' = call
    /\ UNCHANGED <<env, fallback_file, itinerary_generated, itinerary_data, app_retry_count,
                   generate_triggered, delay_until, inputs, attempt, inv, gen>>

GenerateAudio == \E i \in 0..(MAX_DIAS - 1) : GenerateAudioDay(i)

Next ==
    \/ ChangeInput
    \/ ClickGenerate
    \/ RunScript
    \/ LLMCall
    \/ Sleep
    \/ Mock
    \/ GenerateAudio

Spec == Init /\ [][Next]_vars

\* The same session, started counting the calls of agents.py:88
CountInit ==
    /\ env \in Envs
    /\ fallback_file \in FallbackFiles
    /\ itinerary_generated = FALSE
    /\ itinerary_data = NULL
    /\ app_retry_count = 0
    /\ generate_triggered = FALSE
    /\ delay_until = 0
    /\ dest_input = "Madrid, Spain"
    /\ days_input = (MIN_DIAS + MAX_DIAS) \div 2
    /\ theme_input = "Historical and Cultural"
    /\ audio = NoAudio
    /\ pc = "idle"
    /\ attempt = 0
    /\ inv = NoInv
    /\ gen = NoGen
    /\ waited = 0
    /\ call = Counting(0)

CountSpec == CountInit /\ [][Next]_vars

\* ------------------------------------------------------------------------
\* The lookups of tools.py, which the application flow does not call
\* ------------------------------------------------------------------------
\* tools.py:9, "" when the variable is unset or empty
MapsKeys == {"", "maps-key"}

Places == {"Prado Museum", "Retiro Park"}

\* requests.get, raise_for_status and json() of tools.py:23-25 together: a
\* RequestException, or the findplacefromtext document
FindPlaceReplies ==
    { [kind |-> "RequestException", message |-> "timed out"],
      [kind |-> "json", status |-> "ZERO_RESULTS", candidates |-> <<>>],
      [kind |-> "json", status |-> "OK", candidates |-> <<>>],
      [kind |-> "json", status |-> "OK", candidates |-> <<[place_id |-> "ChIJ1"]>>] }

\* the result field of a details document: every field, no opening hours and
\* no rating, closed, no field at all
PlaceResults ==
    { [name |-> "Museo del Prado", formatted_address |-> "Paseo del Prado",
       types |-> <<"museum", "tourist_attraction">>,
       opening_hours |-> [open_now |-> TRUE], rating |-> "4.7"],
      [name |-> "Museo del Prado", formatted_address |-> "Paseo del Prado",
       types |-> <<"museum">>, opening_hours |-> [open_now |-> FALSE], rating |-> "4.7"],
      [name |-> "El Retiro", types |-> <<"park">>, opening_hours |-> [periods |-> <<>>]],
      [types |-> <<>>] }

\* tools.py:35-37: a RequestException, or the details document
DetailsReplies ==
    { [kind |-> "RequestException", message |-> "503 Server Error"],
      [kind |-> "json", status |-> "NOT_FOUND", result |-> NULL],
      [kind |-> "json", status |-> "OK", result |-> NULL] }
    \cup { [kind |-> "json", status |-> "OK", result |-> r] : r \in PlaceResults }

\* dict.get(key, default)
Get(d, key, default) == IF key \in DOMAIN d THEN d[key] ELSE default

\* ', '.join(parts)
RECURSIVE Join(_)
Join(parts) ==
    IF parts = <<>> THEN ""
    ELSE IF Len(parts) = 1 THEN parts[1]
    ELSE parts[1] \o ", " \o Join(Tail(parts))

\* tools.py:58-59 returning the note of lines 30 and 56
RequestFailed_WithEstimate(place_name, message) ==
    "Details for " \o place_name \o ": Network/API Request failed: " \o message
        \o ". Using estimated duration of 1.5 hours and cost of Free."

\* tools.py:58-59
RequestFailed(place_name, message) ==
    "Details for " \o place_name \o ": Network/API Request failed: " \o message

\* tools.py:11-59; requests lists the requests made
get_location_details(key, place_name, find_reply, details_reply) ==
    IF key = ""
    THEN [requests |-> <<>>,
          ret |-> "Error: GOOGLE_MAPS_API_KEY is missing. Cannot fetch real details for "
                  \o place_name \o "."]
    ELSE IF find_reply.kind = "RequestException"
    THEN [requests |-> <<"findplacefromtext">>,
          ret |-> RequestFailed(place_name, find_reply.message)]
    ELSE IF ~(find_reply.status = "OK" /\ find_reply.candidates # <<>>)
    THEN [requests |-> <<"findplacefromtext">>,
          ret |-> "Details for " \o place_name
                  \o ": Place not found. Using estimated duration of 1.5 hours and cost of Free."]
    ELSE IF details_reply.kind = "RequestException"
    THEN [requests |-> <<"findplacefromtext", "details">>,
          ret |-> RequestFailed(place_name, details_reply.message)]
    ELSE IF details_reply.status = "OK" /\ details_reply.result # NULL
    THEN LET result == details_reply.result
             name == Get(result, "name", place_name)
             address == Get(result, "formatted_address", "Unknown Address")
             place_type == Join(Get(result, "types", <<>>))
             opening_status ==
                 IF "opening_hours" \in DOMAIN result
                    /\ "open_now" \in DOMAIN result.opening_hours
                 THEN "Status: "
                      \o (IF result.opening_hours.open_now THEN "Open Now" ELSE "Closed Now")
                      \o ". Full Hours Check Recommended."
                 ELSE "Unknown Hours"
             rating == Get(result, "rating", "N/A")
         IN  [requests |-> <<"findplacefromtext", "details">>,
              ret |-> "Location: " \o name \o " (" \o address \o "). Type: " \o place_type
                      \o ". Rating: " \o rating \o "/5. " \o opening_status \o ". "
                      \o "LLM Planner Note: Estimate duration based on attraction type (e.g., 2 hours for a major museum)."]
    ELSE [requests |-> <<"findplacefromtext", "details">>,
          ret |-> "Details for " \o place_name
                  \o ": Detailed info unavailable. Using estimated duration of 1.5 hours and cost of Free."]

\* tools.py:71
modes_to_try == <<"walking", "transit", "driving">>

\* routes[0]['legs'][0] of a directions document
Leg(duration_text, duration_value, distance_text, steps) ==
    [duration |-> [text |-> duration_text, value |-> duration_value],
     distance |-> [text |-> distance_text],
     steps |-> steps]

\* tools.py:76-78 for one mode: a RequestException, or the directions
\* document; walking comes in 1200 and in 1201 seconds, transit with a first
\* step that names its travel mode, one that does not, and with no step
DirectionsReplies(mode) ==
    { [kind |-> "RequestException"],
      [kind |-> "json", status |-> "ZERO_RESULTS", routes |-> <<>>],
      [kind |-> "json", status |-> "OK", routes |-> <<>>] }
    \cup
    { [kind |-> "json", status |-> "OK", routes |-> <<leg>>] : leg \in
        CASE mode = "walking" ->
                 { Leg("20 mins", 1200, "1.6 km", <<[travel_mode |-> "WALKING"]>>),
                   Leg("21 mins", 1201, "1.7 km", <<[travel_mode |-> "WALKING"]>>) }
          [] mode = "transit" ->
                 { Leg("12 mins", 720, "3.1 km", <<[travel_mode |-> "WALKING"],
                                                   [travel_mode |-> "TRANSIT"]>>),
                   Leg("12 mins", 720, "3.1 km", <<[html_instructions |-> "Bus 27"]>>),
                   Leg("12 mins", 720, "3.1 km", <<>>) }
          [] OTHER ->
                 { Leg("9 mins", 540, "3.4 km", <<[travel_mode |-> "DRIVING"]>>) } }

\* str.capitalize() on the three modes
capitalize(mode) ==
    CASE mode = "walking" -> "Walking"
      [] mode = "transit" -> "Transit"
      [] mode = "driving" -> "Driving"

\* tools.py:86 with >= for >
WalkingIsLong_Inclusive(value) == value >= 1200

\* tools.py:86
WalkingIsLong(value) == value > 1200

\* tools.py:80-96: the summary of the route found for a mode
RouteSummary(mode, route) ==
    LET long == mode = "walking" /\ WalkingIsLong(route.duration.value)
        transport_type ==
            IF long THEN "Transit/Bus"
            ELSE IF mode = "transit"
            THEN IF route.steps # <<>>
                 THEN Get(route.steps[1], "travel_mode", "Transit")
                 ELSE "Transit"
            ELSE capitalize(mode)
        note ==
            IF long THEN "Consider public transport or taxi since walking is long."
            ELSE IF mode = "transit" THEN "Requires purchasing a ticket."
            ELSE ""
    IN  "Travel time: " \o route.duration.text \o ". "
        \o "Distance: " \o route.distance.text \o ". "
        \o "Transport: " \o transport_type
        \o ". Note: " \o (IF note # "" THEN note ELSE "None") \o "."

\* tools.py:73-99: the loop from the k-th mode on; queried lists the modes
\* requested so far
RECURSIVE TryModes(_, _, _, _, _)
TryModes(k, from_location, to_location, replies, queried) ==
    IF k > Len(modes_to_try)
    THEN [queried |-> queried,
          ret |-> "Travel time: Route not found for walking, transit, or driving between "
                  \o from_location \o " and " \o to_location \o ". Check locations."]
    ELSE LET mode == modes_to_try[k]
             data == replies[mode]
             q == Append(queried, mode)
         IN  IF data.kind = "json" /\ data.status = "OK" /\ data.routes # <<>>
             THEN [queried |-> q, ret |-> RouteSummary(mode, data.routes[1])]
             ELSE TryModes(k + 1, from_location, to_location, replies, q)

\* tools.py:62-100; replies gives, for each mode, what its request comes
\* back with
calculate_travel_time(key, from_location, to_location, replies) ==
    IF key = ""
    THEN [queried |-> <<>>,
          ret |-> "Error: GOOGLE_MAPS_API_KEY is missing. Cannot calculate real travel time between "
                  \o from_location \o " and " \o to_location \o "."]
    ELSE TryModes(1, from_location, to_location, replies, <<>>)

\* ------------------------------------------------------------------------
\* The fallback expansions on the Python heap. The heap is the sequence of
\* the objects allocated so far and a reference is an index into it. Lists
\* hold references to their items; a Day, or the dict dumped from one, holds
\* two strings and the references of its two lists; an Activity or a
\* Logistics, or the dict dumped from one, holds strings only (val).
\* ------------------------------------------------------------------------
NewObj(h, obj) == [heap |-> Append(h, obj), ref |-> Len(h) + 1]

\* pydantic building the items of a List[cls] field from JSON data
RECURSIVE NewItems(_, _, _)
NewItems(h, cls, vals) ==
    IF vals = <<>> THEN [heap |-> h, refs |-> <<>>]
    ELSE LET first == NewObj(h, [kind |-> cls, val |-> Head(vals)])
             rest == NewItems(first.heap, cls, Tail(vals))
         IN  [heap |-> rest.heap, refs |-> <<first.ref>> \o rest.refs]

\* The Day object that load_fallback_itinerary (TravelItinerary.model_validate
\* of the parsed file) holds as fallback_data.daily_itinerary[0]
NewDay(h, day) ==
    LET acts == NewItems(h, "Activity", day.activities)
        alist == NewObj(acts.heap, [kind |-> "list", items |-> acts.refs])
        logs == NewItems(alist.heap, "Logistics", day.logistics_between_activities)
        llist == NewObj(logs.heap, [kind |-> "list", items |-> logs.refs])
    IN  NewObj(llist.heap, [kind |-> "Day", date |-> day.date, day_name |-> day.day_name,
                            activities |-> alist.ref,
                            logistics_between_activities |-> llist.ref])

\* model_dump of the items of a list field: a new dict for each model
RECURSIVE DumpItems(_, _)
DumpItems(h, refs) ==
    IF refs = <<>> THEN [heap |-> h, refs |-> <<>>]
    ELSE LET first == NewObj(h, [kind |-> "dict", val |-> h[Head(refs)].val])
             rest == DumpItems(first.heap, Tail(refs))
         IN  [heap |-> rest.heap, refs |-> <<first.ref>> \o rest.refs]

\* agents.py:118, 156 as dict(day): the dict holds the lists of the Day itself
model_dump_Shallow(h, ref) == NewObj(h, [h[ref] EXCEPT !.kind = "dict"])

\* agents.py:118, 156: Day.model_dump() builds new dicts and new lists all
\* the way down
model_dump(h, ref) ==
    LET acts == DumpItems(h, h[h[ref].activities].items)
        alist == NewObj(acts.heap, [kind |-> "list", items |-> acts.refs])
        logs == DumpItems(alist.heap, h[h[ref].logistics_between_activities].items)
        llist == NewObj(logs.heap, [kind |-> "list", items |-> logs.refs])
    IN  NewObj(llist.heap, [h[ref] EXCEPT !.kind = "dict",
                                          !.activities = alist.ref,
                                          !.logistics_between_activities = llist.ref])

\* agents.py:122, 160: dict.copy() is shallow, the copy holds the same lists
copy(h, ref) == NewObj(h, h[ref])

\* pydantic validating the items of a List[cls] field: a dict becomes a new
\* instance of cls, an instance of cls is taken as it is
RECURSIVE ValidateItems(_, _, _)
ValidateItems(h, cls, refs) ==
    IF refs = <<>> THEN [heap |-> h, refs |-> <<>>]
    ELSE LET first == IF h[Head(refs)].kind = cls
                      THEN [heap |-> h, ref |-> Head(refs)]
                      ELSE NewObj(h, [kind |-> cls, val |-> h[Head(refs)].val])
             rest == ValidateItems(first.heap, cls, Tail(refs))
         IN  [heap |-> rest.heap, refs |-> <<first.ref>> \o rest.refs]

\* agents.py:127, 165: Day.model_validate(day_dict) builds a new Day with new
\* lists
model_validate(h, ref) ==
    LET acts == ValidateItems(h, "Activity", h[h[ref].activities].items)
        alist == NewObj(acts.heap, [kind |-> "list", items |-> acts.refs])
        logs == ValidateItems(alist.heap, "Logistics",
                              h[h[ref].logistics_between_activities].items)
        llist == NewObj(logs.heap, [kind |-> "list", items |-> logs.refs])
    IN  NewObj(llist.heap, [h[ref] EXCEPT !.kind = "Day",
                                          !.activities = alist.ref,
                                          !.logistics_between_activities = llist.ref])

\* The two callers of the expansion
Expansions == {"run_planning_agent_gemini", "get_mock_itinerary_with_expansion"}

\* agents.py:123 and agents.py:161
ExpandedDayName(fn, i, template_name) ==
    IF fn = "run_planning_agent_gemini"
    THEN "Day " \o ToString(i + 1) \o ": Demo based on " \o template_name
    ELSE "Day " \o ToString(i + 1) \o ": DEMO (JSON Error Fallback)"

\* agents.py:121-128 and 159-166: the passes i, i + 1, ..., days - 1 of the
\* loop, new_itinerary holding the Days appended so far
RECURSIVE ExpandLoop(_, _, _, _, _, _, _)
ExpandLoop(h, fn, template_day_dict, template_name, i, days, new_itinerary) ==
    IF i >= days THEN [heap |-> h, refs |-> new_itinerary]
    ELSE LET day_dict == copy(h, template_day_dict)
             named == [day_dict.heap EXCEPT
                         ![day_dict.ref].day_name = ExpandedDayName(fn, i, template_name),
                         ![day_dict.ref].date = DatePrefix \o zfill(str(i + 1), 2)]
             new_day == model_validate(named, day_dict.ref)
         IN  ExpandLoop(new_day.heap, fn, template_day_dict, template_name, i + 1, days,
                        Append(new_itinerary, new_day.ref))

\* agents.py:115-133 and 153-171: the heap and the references the expansion
\* leaves; no Days when the fallback document is missing or has none
Expansion(fn, file, days) ==
    LET fallback_data == load_fallback_itinerary(file) IN
    IF fallback_data # NULL /\ fallback_data.daily_itinerary # <<>>
    THEN LET template == NewDay(<<>>, fallback_data.daily_itinerary[1])
             template_day_dict == model_dump(template.heap, template.ref)
             loop == ExpandLoop(template_day_dict.heap, fn, template_day_dict.ref,
                                fallback_data.daily_itinerary[1].day_name, 0, days, <<>>)
         IN  [heap |-> loop.heap, template |-> template.ref,
              template_day_dict |-> template_day_dict.ref, new_itinerary |-> loop.refs]
    ELSE [heap |-> <<>>, template |-> 0, template_day_dict |-> 0, new_itinerary |-> <<>>]

\* What a holder of the reference sees: the Day as a value
DayView(h, ref) ==
    LET acts == h[h[ref].activities].items
        logs == h[h[ref].logistics_between_activities].items
    IN  [date |-> h[ref].date, day_name |-> h[ref].day_name,
         activities |-> [k \in 1..Len(acts) |-> h[acts[k]].val],
         logistics_between_activities |-> [k \in 1..Len(logs) |-> h[logs[k]].val]]

\* The mutable objects a Day (or dict) is made of
DayObjects(h, ref) ==
    LET acts == h[h[ref].activities].items
        logs == h[h[ref].logistics_between_activities].items
    IN  {ref, h[ref].activities, h[ref].logistics_between_activities}
          \cup {acts[k] : k \in 1..Len(acts)} \cup {logs[k] : k \in 1..Len(logs)}

\* The changes a holder of a Day can make through it (data_models.py: the
\* models are mutable, their list fields are Python lists)
DayWrites == {"day.day_name = s", "day.date = s",
              "day.activities.append(a)", "day.activities[0].name = s",
              "day.activities.pop()",
              "day.logistics_between_activities.clear()",
              "day.logistics_between_activities[0].transport_type = s"}

DayWritePossible(h, ref, w) ==
    CASE w \in {"day.activities[0].name = s", "day.activities.pop()"} ->
             h[h[ref].activities].items # <<>>
      [] w = "day.logistics_between_activities[0].transport_type = s" ->
             h[h[ref].logistics_between_activities].items # <<>>
      [] OTHER -> TRUE

DayWrite(h, ref, w) ==
    LET alist == h[ref].activities
        llist == h[ref].logistics_between_activities
    IN  CASE w = "day.day_name = s" -> [h EXCEPT ![ref].day_name = "Changed"]
          [] w = "day.date = s" -> [h EXCEPT ![ref].date = <<"2", "0", "3", "0">>]
          [] w = "day.activities.append(a)" ->
                 LET a == NewObj(h, [kind |-> "Activity", val |-> Tower])
                 IN  [a.heap EXCEPT ![alist].items = Append(@, a.ref)]
          [] w = "day.activities[0].name = s" ->
                 [h EXCEPT ![h[alist].items[1]].val.name = "Changed"]
          [] w = "day.activities.pop()" ->
                 [h EXCEPT ![alist].items = SubSeq(@, 1, Len(@) - 1)]
          [] w = "day.logistics_between_activities.clear()" ->
                 [h EXCEPT ![llist].items = <<>>]
          [] OTHER ->
                 [h EXCEPT ![h[llist].items[1]].val.transport_type = "Changed"]

\* ------------------------------------------------------------------------
\* The functions on their own: a behaviour calls generate_daily_summary_audio
\* or a lookup once, with arguments and replies of the services drawn from
\* the sets below, and leaves in call what the function did.
\* ------------------------------------------------------------------------
FnDays == {DocDay(1), DocDay(2), LLMDay(1)}

Locations == <<"Prado Museum", "Retiro Park">>

\* app.py:125-134 and the module-level code of agents.py and tools.py
FnInit ==
    /\ env \in FnEnvs
    /\ fallback_file \in FallbackFiles
    /\ itinerary_generated = FALSE
    /\ itinerary_data = NULL
    /\ app_retry_count = 0
    /\ generate_triggered = FALSE
    /\ delay_until = 0
    /\ dest_input = "Madrid, Spain"
    /\ days_input = (MIN_DIAS + MAX_DIAS) \div 2
    /\ theme_input = "Historical and Cultural"
    /\ audio = NoAudio
    /\ pc = "idle"
    /\ attempt = 0
    /\ inv = NoInv
    /\ gen = NoGen
    /\ waited = 0
    /\ call = NoCall

\* agents.py:180-266
CallAudio ==
    /\ call = NoCall
    /\ \E day_data \in FnDays :
       \E summary_reply \in SummaryReplies(day_data), tts \in TTSReplySeqs(day_data) :
         LET r == generate_daily_summary_audio(env, day_data, summary_reply, tts) IN
         call' = [fn |-> "generate_daily_summary_audio",
                  day_data |-> day_data, summary_reply |-> summary_reply, tts |-> tts,
                  trace |-> r.trace, ret |-> r.ret]
    /\ UNCHANGED <<env, fallback_file, session, inputs, pc, attempt, inv, gen, waited>>

\* tools.py:11-59
CallLocationDetails ==
    /\ call = NoCall
    /\ \E key \in MapsKeys, place_name \in Places,
          find_reply \in FindPlaceReplies, details_reply \in DetailsReplies :
         LET r == get_location_details(key, place_name, find_reply, details_reply) IN
         call' = [fn |-> "get_location_details",
                  key |-> key, place_name |-> place_name,
                  find_reply |-> find_reply, details_reply |-> details_reply,
                  trace |-> r.requests, ret |-> r.ret]
    /\ UNCHANGED <<env, fallback_file, session, inputs, pc, attempt, inv, gen, waited>>

\* tools.py:62-100
CallTravelTime ==
    /\ call = NoCall
    /\ \E key \in MapsKeys,
          walking \in DirectionsReplies("walking"),
          transit \in DirectionsReplies("transit"),
          driving \in DirectionsReplies("driving") :
         LET replies == [walking |-> walking, transit |-> transit, driving |-> driving]
             r == calculate_travel_time(key, Locations[1], Locations[2], replies)
         IN  call' = [fn |-> "calculate_travel_time",
                      key |-> key, from_location |-> Locations[1],
                      to_location |-> Locations[2], replies |-> replies,
                      trace |-> r.queried, ret |-> r.ret]
    /\ UNCHANGED <<env, fallback_file, session, inputs, pc, attempt, inv, gen, waited>>

\* agents.py:115-133 and 153-171: one of the two expansions runs
CallExpansion ==
    /\ call = NoCall
    /\ \E fn \in Expansions, days \in DayCounts :
         LET r == Expansion(fn, fallback_file, days) IN
         call' = [fn |-> "expansion", caller |-> fn, days |-> days, heap |-> r.heap,
                  template |-> r.template, template_day_dict |-> r.template_day_dict,
                  new_itinerary |-> r.new_itinerary, written |-> 0, write |-> "none"]
    /\ UNCHANGED <<env, fallback_file, session, inputs, pc, attempt, inv, gen, waited>>

\* A holder of the expanded itinerary changes one of its Days, once
WriteDay ==
    /\ call # NoCall
    /\ call.fn = "expansion"
    /\ call.written = 0
    /\ \E k \in 1..Len(call.new_itinerary), w \in DayWrites :
         /\ DayWritePossible(call.heap, call.new_itinerary[k], w)
         /\ call' = [call EXCEPT !.heap = DayWrite(call.heap, call.new_itinerary[k], w),
                                 !.written = k, !.write = w]
    /\ UNCHANGED <<env, fallback_file, session, inputs, pc, attempt, inv, gen, waited>>

FnNext ==
    \/ CallAudio
    \/ CallLocationDetails
    \/ CallTravelTime
    \/ CallExpansion
    \/ WriteDay

FnSpec == FnInit /\ [][FnNext]_vars

\* ------------------------------------------------------------------------
\* Vocabulary of the properties
\* ------------------------------------------------------------------------
NCalls == Len(inv.calls)
BranchOf(k) == inv.calls[k].branch
Ended == inv.status \in {"returned", "raised"}
LastBranch == IF NCalls = 0 THEN "none" ELSE BranchOf(NCalls)

\* the fallback document loads and has a first day to expand
FallbackUsable ==
    /\ load_fallback_itinerary(fallback_file) # NULL
    /\ load_fallback_itinerary(fallback_file).daily_itinerary # <<>>

TwoDigits(i) == <<Digit(i \div 10), Digit(i % 10)>>

\* ------------------------------------------------------------------------
\* C1 (as amended). In a generation whose invocations all raise
\* TransientRetryError the controller catches at most MAX_APP_RETRIES times:
\* the counter equals the number of catches, a restart is scheduled exactly
\* for the catches that leave the counter below MAX_APP_RETRIES, the catch
\* that makes it MAX_APP_RETRIES is followed by no further invocation but by
\* one call of get_mock_itinerary_with_expansion, whose result is what the
\* session ends with: the '[MOCK/RETRY FAIL]' itinerary when the fallback
\* document loads with a non-empty day list, nothing otherwise.
\* ------------------------------------------------------------------------
C1_OuterRetriesThenMock ==
    /\ gen.catches <= MAX_APP_RETRIES
    /\ gen.invocations <= MAX_APP_RETRIES
    /\ gen.mocks <= 1
    /\ gen.restarts = (IF gen.catches < MAX_APP_RETRIES THEN gen.catches
                       ELSE MAX_APP_RETRIES - 1)
    /\ (inv.status = "raised" /\ gen.mocks = 0) =>
           /\ app_retry_count = gen.catches
           /\ gen.catches = gen.invocations
           /\ (app_retry_count < MAX_APP_RETRIES <=> pc = "run")
           /\ (app_retry_count = MAX_APP_RETRIES <=> pc = "exhausted")
    /\ gen.mocks = 1 =>
           /\ inv.status = "raised"
           /\ gen.catches = MAX_APP_RETRIES
           /\ gen.invocations = MAX_APP_RETRIES
           /\ itinerary_data = gen.mock_ret
           /\ itinerary_generated = (gen.mock_ret # NULL)
           /\ ~generate_triggered
           /\ app_retry_count = 0
           /\ (gen.mock_ret # NULL) = FallbackUsable
           /\ FallbackUsable =>
                 /\ itinerary_data.main_theme = "[MOCK/RETRY FAIL] " \o inv.request.theme
                 /\ itinerary_data.main_theme # "[MOCK] " \o inv.request.theme

\* C1 witness: three catches, the mock called once and its itinerary stored
C1_Witness ==
    /\ gen.mocks = 1
    /\ gen.catches = MAX_APP_RETRIES
    /\ itinerary_generated
    /\ itinerary_data.main_theme = "[MOCK/RETRY FAIL] " \o theme_input

\* C1 as stated: after the last catch the result of the mock, carrying the
\* '[MOCK/RETRY FAIL]' marker, is stored
C1_Original ==
    gen.mocks = 1 =>
        /\ itinerary_data # NULL
        /\ itinerary_data.main_theme = "[MOCK/RETRY FAIL] " \o inv.request.theme

\* ------------------------------------------------------------------------
\* C2. A call that fails with anything but service-unavailable or
\* quota-exhausted is the last call of its invocation, at whichever attempt
\* it happens: the invocation raises TransientRetryError, returns nothing,
\* has waited only after the earlier 503 failures and has not loaded the
\* fallback document.
\* ------------------------------------------------------------------------
C2_OtherFailureRaises ==
    \A k \in 1..NCalls :
        BranchOf(k) = "Exception" =>
            /\ k = NCalls
            /\ inv.status = "raised"
            /\ inv.ret = NULL
            /\ inv.waits = k - 1
            /\ inv.loads = 0
            /\ pc \notin {"attempt", "sleep"}

\* C2 witness: the failure happens at the fifth attempt
C2_Witness ==
    /\ NCalls = MAX_JSON_RETRIES
    /\ BranchOf(NCalls) = "Exception"
    /\ inv.status = "raised"

\* ------------------------------------------------------------------------
\* C3. When every call of an invocation fails with service-unavailable, the
\* invocation makes exactly MAX_JSON_RETRIES calls with the same request,
\* waits once between two consecutive calls (none before the first, none
\* after the last), then returns None; it neither raises nor loads the
\* fallback document.
\* ------------------------------------------------------------------------
C3_All503ReturnsNull ==
    (NCalls > 0 /\ \A k \in 1..NCalls : BranchOf(k) = "ServiceUnavailable") =>
        /\ NCalls <= MAX_JSON_RETRIES
        /\ \A k \in 1..NCalls : inv.calls[k].request = inv.calls[1].request
        /\ inv.loads = 0
        /\ inv.status # "raised"
        /\ inv.status = "running" =>
               /\ NCalls < MAX_JSON_RETRIES
               /\ pc = "sleep"   => inv.waits = NCalls - 1
               /\ pc = "attempt" => inv.waits = NCalls
        /\ inv.status = "returned" =>
               /\ NCalls = MAX_JSON_RETRIES
               /\ inv.waits = MAX_JSON_RETRIES - 1
               /\ inv.ret = NULL

\* C3 witness: five 503 failures, the invocation has returned
C3_Witness ==
    /\ inv.status = "returned"
    /\ NCalls = MAX_JSON_RETRIES
    /\ \A k \in 1..NCalls : BranchOf(k) = "ServiceUnavailable"

\* ------------------------------------------------------------------------
\* C4 (as amended). A call that fails with quota-exhausted, at whichever
\* attempt and after whatever number of 503 retries, is the last call of its
\* invocation; when the fallback document loads with a non-empty day list the
\* invocation returns an itinerary with main_theme '[MOCK] ' + theme, the
\* requested destination, and total_days and number of days equal to the
\* requested day count, and the outcome is not counted as an outer retry.
\* ------------------------------------------------------------------------
QuotaOutcome(k) ==
    /\ k = NCalls
    /\ \A j \in 1..(k - 1) : BranchOf(j) = "ServiceUnavailable"
    /\ inv.status = "returned"
    /\ inv.loads = 1
    /\ pc \notin {"attempt", "sleep", "exhausted"}
    /\ inv.ret # NULL
    /\ inv.ret.main_theme = "[MOCK] " \o inv.request.theme
    /\ inv.ret.destination = inv.request.destination
    /\ inv.ret.total_days = inv.request.days
    /\ Len(inv.ret.daily_itinerary) = inv.request.days
    /\ app_retry_count = 0
    /\ gen.catches = gen.invocations - 1
    /\ gen.mocks = 0

C4_QuotaFallsBack ==
    \A k \in 1..NCalls :
        (BranchOf(k) = "ResourceExhausted" /\ FallbackUsable) => QuotaOutcome(k)

\* C4 witness: quota-exhausted at the third attempt of the second invocation
C4_Witness ==
    /\ NCalls = 3
    /\ BranchOf(3) = "ResourceExhausted"
    /\ gen.invocations = 2
    /\ inv.ret # NULL
    /\ itinerary_data = inv.ret

\* C4 as stated: the document only has to load
C4_Original ==
    \A k \in 1..NCalls :
        (BranchOf(k) = "ResourceExhausted" /\ load_fallback_itinerary(fallback_file) # NULL)
            => QuotaOutcome(k)

\* ------------------------------------------------------------------------
\* C5 (as stated). An itinerary that run_planning_agent_gemini returns from
\* a schema-valid LLM response has exactly the requested number of days and
\* the requested theme, and so has the itinerary stored in the session.
\* ------------------------------------------------------------------------
C5_ReturnedMatchesRequest ==
    (inv.status = "returned" /\ LastBranch = "return") =>
        /\ Len(inv.ret.daily_itinerary) = inv.request.days
        /\ inv.ret.main_theme = inv.request.theme
        /\ Len(itinerary_data.daily_itinerary) = days_input
        /\ itinerary_data.main_theme = theme_input

\* ------------------------------------------------------------------------
\* C6. Both fallback expansions, given a document that loads with a
\* non-empty day list, return exactly days Day records and total_days =
\* days; record i has the activities and logistics of the document's first
\* day and the date '2025-01-' followed by i on two digits, and the dates
\* are strictly increasing.
\* ------------------------------------------------------------------------
ExpansionShape(r, days) ==
    LET first == load_fallback_itinerary(fallback_file).daily_itinerary[1] IN
    /\ r # NULL
    /\ r.total_days = days
    /\ Len(r.daily_itinerary) = days
    /\ \A i \in 1..days :
          /\ r.daily_itinerary[i].activities = first.activities
          /\ r.daily_itinerary[i].logistics_between_activities
                = first.logistics_between_activities
          /\ r.daily_itinerary[i].date = DatePrefix \o TwoDigits(i)
    /\ \A i \in 1..(days - 1) :
          StrLess(r.daily_itinerary[i].date, r.daily_itinerary[i + 1].date)

C6_ExpansionShape ==
    FallbackUsable =>
        /\ (Ended /\ LastBranch = "ResourceExhausted") =>
               ExpansionShape(inv.ret, inv.request.days)
        /\ gen.mocks = 1 => ExpansionShape(gen.mock_ret, inv.request.days)

\* C6 witness: the mock expansion was made for the largest day count from a
\* document of two days
C6_Witness ==
    /\ gen.mocks = 1
    /\ gen.mock_ret # NULL
    /\ inv.request.days = MAX_DIAS
    /\ Len(load_fallback_itinerary(fallback_file).daily_itinerary) = 2

\* ------------------------------------------------------------------------
\* C7. A change of an input leaves the session idle without a result
\* (generate_triggered and itinerary_generated false, itinerary_data None,
\* no audio entry), in whatever state it happens; run_planning_agent_gemini
\* is invoked only while generate_triggered holds, and generate_triggered
\* becomes true only by a click on the generate button.
\* ------------------------------------------------------------------------
C7_InputChangeResets ==
    [][ /\ (inputs' # inputs) =>
               /\ ~generate_triggered'
               /\ ~itinerary_generated'
               /\ itinerary_data' = NULL
               /\ audio' = NoAudio
               /\ pc' \notin {"attempt", "sleep", "exhausted"}
        /\ (gen'.invocations > gen.invocations) => generate_triggered
        /\ (pc' \in {"attempt", "sleep", "exhausted"}) => generate_triggered'
        /\ (~generate_triggered /\ generate_triggered') => ClickGenerate
      ]_vars

\* C7 witness: an input was changed while an outer retry was pending; the
\* counter and the deadline are left over, nothing else is
C7_Witness ==
    /\ app_retry_count > 0
    /\ delay_until > 0
    /\ ~generate_triggered
    /\ pc = "idle"
    /\ itinerary_data = NULL
    /\ audio = NoAudio

\* ------------------------------------------------------------------------
\* C8 (as amended). load_fallback_itinerary reports None for a document that
\* is missing, unreadable or not a TravelItinerary (a document with an empty
\* day list is returned as it is); in all four cases both expansions report
\* None, and no expansion ever returns fewer days than requested.
\* ------------------------------------------------------------------------
FileBroken ==
    \/ ~fallback_file.exists
    \/ ~fallback_file.json_ok
    \/ ~(TravelItineraryFields \subseteq DOMAIN fallback_file.data)

FileEmptyDays ==
    /\ ~FileBroken
    /\ Len(fallback_file.data.daily_itinerary) = 0

C8_NoPartialFallback ==
    /\ FileBroken => load_fallback_itinerary(fallback_file) = NULL
    /\ (Ended /\ LastBranch = "ResourceExhausted") =>
          /\ (FileBroken \/ FileEmptyDays) => (inv.ret = NULL /\ itinerary_data = NULL)
          /\ inv.ret # NULL => Len(inv.ret.daily_itinerary) >= inv.request.days
    /\ gen.mocks = 1 =>
          /\ (FileBroken \/ FileEmptyDays) => (gen.mock_ret = NULL /\ itinerary_data = NULL)
          /\ gen.mock_ret # NULL => Len(gen.mock_ret.daily_itinerary) >= inv.request.days

\* C8 witness: the mock was asked for with a document whose day list is empty
C8_Witness ==
    /\ gen.mocks = 1
    /\ FileEmptyDays
    /\ gen.mock_ret = NULL
    /\ pc = "idle"

\* C8 as stated: with an empty day list load_fallback_itinerary too reports None
C8_Original ==
    ((FileBroken \/ FileEmptyDays) /\ (inv.loads > 0 \/ gen.mocks > 0)) =>
        /\ load_fallback_itinerary(fallback_file) = NULL
        /\ inv.ret = NULL
        /\ gen.mock_ret = NULL

\* ------------------------------------------------------------------------
\* C9. The first call whose response validates ends the invocation: it is
\* call k after k - 1 calls that failed with service-unavailable, the parsed
\* itinerary is what the function returns (and what the session stores), and
\* no call follows it.
\* ------------------------------------------------------------------------
C9_FirstValidResponseReturns ==
    \A k \in 1..NCalls :
        BranchOf(k) = "return" =>
            /\ k = NCalls
            /\ \A j \in 1..(k - 1) : BranchOf(j) = "ServiceUnavailable"
            /\ inv.waits = k - 1
            /\ inv.status = "returned"
            /\ inv.calls[k].parsed # NULL
            /\ inv.ret = inv.calls[k].parsed
            /\ itinerary_data = inv.ret
            /\ inv.loads = 0
            /\ pc \notin {"attempt", "sleep", "exhausted"}

\* C9 witness: the fourth call is the first to validate
C9_Witness ==
    /\ NCalls = 4
    /\ BranchOf(4) = "return"
    /\ inv.waits = 3
    /\ itinerary_generated

\* ------------------------------------------------------------------------
\* C10. When run_planning_agent_gemini returns None the controller ends the
\* request: the outer counter is set to 0 and not incremented, no restart
\* is scheduled, the mock is not called, and the session is idle without an
\* itinerary.
\* ------------------------------------------------------------------------
C10_NullIsTerminal ==
    [][ (inv' # inv /\ inv'.status = "returned" /\ inv'.ret = NULL) =>
            /\ app_retry_count' = 0
            /\ ~generate_triggered'
            /\ pc' = "idle"
            /\ itinerary_data' = NULL
            /\ ~itinerary_generated'
            /\ gen'.catches = gen.catches
            /\ gen'.restarts = gen.restarts
            /\ gen'.mocks = 0
      ]_vars

\* C10 witness: the third invocation of a generation returned None after
\* five 503 failures; the counter, 2 before, is 0
C10_Witness ==
    /\ inv.status = "returned"
    /\ inv.ret = NULL
    /\ NCalls = MAX_JSON_RETRIES
    /\ gen.catches = MAX_APP_RETRIES - 1
    /\ app_retry_count = 0
    /\ pc = "idle"

\* ------------------------------------------------------------------------
\* C11 (as amended). A generation that ends with the outer retry budget
\* spent (MAX_APP_RETRIES catches), the fallback document loading with a
\* non-empty day list, leaves the session with the labelled demo itinerary
\* and itinerary_generated true. A generation that ends with the inner
\* budget spent (MAX_JSON_RETRIES service-unavailable failures) leaves no
\* result, whatever the fallback document.
\* ------------------------------------------------------------------------
OuterBudgetSpent == gen.mocks = 1
InnerBudgetSpent ==
    /\ inv.status = "returned"
    /\ NCalls = MAX_JSON_RETRIES
    /\ \A k \in 1..NCalls : BranchOf(k) = "ServiceUnavailable"

HoldsDemo ==
    /\ itinerary_generated
    /\ itinerary_data # NULL
    /\ itinerary_data.main_theme \in {"[MOCK] " \o theme_input,
                                      "[MOCK/RETRY FAIL] " \o theme_input}

C11_DemoAfterOuterBudget ==
    /\ (OuterBudgetSpent /\ FallbackUsable) =>
           /\ HoldsDemo
           /\ itinerary_data.destination = dest_input
           /\ Len(itinerary_data.daily_itinerary) = days_input
           /\ ~generate_triggered
    /\ InnerBudgetSpent =>
           /\ itinerary_data = NULL
           /\ ~itinerary_generated
           /\ ~generate_triggered
           /\ gen.mocks = 0

\* C11 witness: the demo itinerary is on display after three catches, for
\* inputs that are not the initial ones
C11_Witness ==
    /\ OuterBudgetSpent
    /\ HoldsDemo
    /\ pc = "idle"
    /\ dest_input = "Lisbon, Portugal"
    /\ days_input = MAX_DIAS

\* C11 as stated: whichever retry budget was spent, a usable fallback
\* document means the session ends with a demo itinerary
C11_Original ==
    ((OuterBudgetSpent \/ InnerBudgetSpent) /\ FallbackUsable) => HoldsDemo

\* ------------------------------------------------------------------------
\* C12. Within a generation, an invocation of run_planning_agent_gemini that
\* follows a catch starts at least RETRY_DELAY_S after the script run of the
\* catch ended (the script sleeps for what is left of the delay).
\* ------------------------------------------------------------------------
C12_RetryWaitsDelay ==
    [][ (gen'.invocations > gen.invocations /\ gen.invocations > 0) =>
            /\ gen.catches = gen.invocations
            /\ delay_until = RETRY_DELAY_S
            /\ waited' >= RETRY_DELAY_S
            /\ delay_until' = 0
      ]_vars

\* C12 witness: the second invocation starts after the script slept for the
\* whole delay and the overhead
C12_Witness ==
    /\ pc = "attempt"
    /\ NCalls = 0
    /\ gen.invocations = 2
    /\ waited = RETRY_DELAY_S + PAUSE_OVERHEAD_S

\* ------------------------------------------------------------------------
\* C13. A click on the generate button sets the outer counter to 0 and
\* clears the stored result, whatever the session held before; during the
\* generation the counter counts the catches of this generation only, so the
\* mock is reached after MAX_APP_RETRIES catches of this generation, no
\* fewer.
\* ------------------------------------------------------------------------
C13_TriggerResetsCounter ==
    [][ /\ ClickGenerate =>
              /\ generate_triggered'
              /\ app_retry_count' = 0
              /\ itinerary_data' = NULL
              /\ ~itinerary_generated'
              /\ gen'.invocations = 0
        /\ generate_triggered' => app_retry_count' = gen'.catches
        /\ (gen'.invocations = 1 /\ inv'.status = "running") =>
              (app_retry_count' = 0 /\ itinerary_data' = NULL)
        /\ pc' = "exhausted" => gen'.catches = MAX_APP_RETRIES
      ]_vars

\* C13 witness: a new generation was triggered while the deadline of an
\* abandoned one, set by a catch, is still stored
C13_Witness ==
    /\ generate_triggered
    /\ gen = NoGen
    /\ pc = "run"
    /\ app_retry_count = 0
    /\ delay_until > 0

\* ------------------------------------------------------------------------
\* The script thread runs every step it has started: a rerun that was asked
\* for happens, an outbound call returns or fails, a sleep ends. Nothing is
\* assumed of the user.
\* ------------------------------------------------------------------------
FairSpec ==
    /\ Spec
    /\ WF_vars(RunScript)
    /\ WF_vars(LLMCall)
    /\ WF_vars(Sleep)
    /\ WF_vars(Mock)

\* the generation ended by itself: an input change or a new click would have
\* emptied gen
SelfEnded == ~generate_triggered /\ gen.invocations > 0

\* ------------------------------------------------------------------------
\* C14 (as amended). Every generation makes at most MAX_APP_RETRIES
\* invocations, and unless an input change or a new click takes its place
\* it ends by itself with generate_triggered false and the counter 0, after
\* which the script reaches the display (idle); if it ended by a returned
\* itinerary or by a mock itinerary, that itinerary is stored with
\* itinerary_generated true. (A generation ended by an input change is idle
\* at once, with the counter as the last catch left it.)
\* ------------------------------------------------------------------------
C14_GenerationEnds ==
    /\ [](gen.invocations <= MAX_APP_RETRIES)
    /\ [](pc = "idle" => ~generate_triggered)
    /\ [](SelfEnded => app_retry_count = 0)
    /\ [](SelfEnded /\ (inv.ret # NULL \/ gen.mock_ret # NULL) =>
              /\ itinerary_generated
              /\ itinerary_data \in {inv.ret, gen.mock_ret} \ {NULL})
    /\ \/ []<>(pc = "idle")
       \/ []<><<ChangeInput \/ ClickGenerate>>_vars

\* C14 witness: a generation that needed every invocation of its budget
\* ended by itself on a returned itinerary, which is on display
C14_Witness ==
    /\ SelfEnded
    /\ pc = "idle"
    /\ gen.invocations = MAX_APP_RETRIES
    /\ gen.mocks = 0
    /\ inv.ret # NULL
    /\ itinerary_data = inv.ret

\* C14 as stated: every generation that no new click replaces is followed
\* by an idle session with generate_triggered false and the counter 0
C14_Original ==
    (generate_triggered /\ gen.invocations > 0) ~>
        \/ pc = "idle" /\ ~generate_triggered /\ app_retry_count = 0
        \/ generate_triggered /\ gen.invocations = 0

\* ------------------------------------------------------------------------
\* C17. While audio_day_<i> holds bytes, the "generate audio" action of day
\* i is not available, so generate_daily_summary_audio is not invoked for i;
\* the entry keeps its bytes until an input change clears it, and gets them
\* only from an invocation for day i. On a displayed day with activities and
\* no entry the action is available, and it stays so after an invocation that
\* stored nothing (until an input change or a click on the generate button).
\* ------------------------------------------------------------------------
DayShown(i) ==
    /\ pc = "idle"
    /\ itinerary_generated
    /\ itinerary_data # NULL
    /\ i < Len(itinerary_data.daily_itinerary)
    /\ itinerary_data.daily_itinerary[i + 1].activities # <<>>

C17_AudioCachedPerDay ==
    /\ [](\A i \in 0..(MAX_DIAS - 1) :
            /\ audio[i] # NULL => ~ENABLED GenerateAudioDay(i)
            /\ (DayShown(i) /\ audio[i] = NULL) => ENABLED GenerateAudioDay(i))
    /\ [][\A i \in 0..(MAX_DIAS - 1) :
            /\ (audio[i] # NULL /\ audio'[i] # audio[i]) =>
                   (audio' = NoAudio /\ ~itinerary_generated' /\ inputs' # inputs)
            /\ (audio[i] = NULL /\ audio'[i] # NULL) =>
                   /\ GenerateAudioDay(i)
                   /\ audio'[i] = AudioBytes(itinerary_data.daily_itinerary[i + 1])
                   /\ pc' = "run"
            /\ (DayShown(i) /\ audio[i] = NULL /\ audio' = audio
                    /\ inputs' = inputs /\ ~generate_triggered') =>
                   (DayShown(i))'
      ]_vars

\* C17 witness: the second day of the displayed itinerary has its audio in
\* the cache, the first has none and its action is still there
C17_Witness ==
    /\ DayShown(0)
    /\ DayShown(1)
    /\ audio[0] = NULL
    /\ audio[1] # NULL

\* ------------------------------------------------------------------------
\* Vocabulary of the properties of the functions on their own
\* ------------------------------------------------------------------------
IsAudioCall == call.fn = "generate_daily_summary_audio"
IsTTS(event) == event.op = "tts"
IsLLM(event) == event.op = "llm"
TTSCalls == SelectSeq(call.trace, IsTTS)
LLMCalls == SelectSeq(call.trace, IsLLM)
NonRetriable == {"Forbidden403", "Exception"}

\* ------------------------------------------------------------------------
\* C15. An invocation of generate_daily_summary_audio calls the TTS service
\* at most MAX_TTS_RETRIES = 2 times and does nothing between the two calls;
\* there is a second call exactly when the first came back with a 503. A
\* 503 followed by audio returns the audio of the second call; a 403 or
\* another exception returns null after that one call; two 503 return null
\* after two calls.
\* ------------------------------------------------------------------------
C15_TTSRetryLadder ==
    IsAudioCall =>
        LET n == Len(TTSCalls)
            tts == call.tts
        IN  /\ n <= MAX_TTS_RETRIES
            /\ \A k \in 1..n : /\ TTSCalls[k].attempt = k - 1
                               /\ TTSCalls[k].outcome = tts[k].kind
            /\ \A k \in 1..Len(call.trace) : call.trace[k].op \in {"llm", "tts"}
            /\ \A k \in 1..(Len(call.trace) - 1) :
                   IsTTS(call.trace[k]) => IsTTS(call.trace[k + 1])
            /\ n = 2 <=> (n >= 1 /\ tts[1].kind = "ServiceUnavailable")
            /\ n >= 1 =>
                 CASE tts[1].kind = "audio" ->
                          call.ret = tts[1].audio_content /\ call.ret # NULL
                   [] tts[1].kind \in NonRetriable ->
                          call.ret = NULL /\ n = 1
                   [] OTHER ->
                          /\ n = 2
                          /\ IF tts[2].kind = "audio"
                             THEN call.ret = tts[2].audio_content /\ call.ret # NULL
                             ELSE call.ret = NULL

\* C15 witness: the first TTS call came back with a 503, the second with the
\* audio, which the function returned
C15_Witness ==
    /\ IsAudioCall
    /\ Len(TTSCalls) = 2
    /\ TTSCalls[1].outcome = "ServiceUnavailable"
    /\ TTSCalls[2].outcome = "audio"
    /\ call.ret = AudioBytes(call.day_data)

\* ------------------------------------------------------------------------
\* C16. An invocation of generate_daily_summary_audio calls the LLM at most
\* once, and once when it passes the two checks at its start. When that call
\* fails (503, quota, another exception, a response without text) the
\* function returns null with no second LLM call and no TTS call; every TTS
\* call comes after a summary call that succeeded.
\* ------------------------------------------------------------------------
C16_SummaryOnce ==
    IsAudioCall =>
        LET reply == call.summary_reply
            reached == env.GCP_TTS_AVAILABLE /\ AgentsClient(env)
        IN  /\ Len(LLMCalls) = (IF reached THEN 1 ELSE 0)
            /\ reached => (IsLLM(call.trace[1]) /\ call.trace[1].outcome = reply.kind)
            /\ (reached /\ (reply.kind # "text" \/ reply.text = NULL)) =>
                   (call.ret = NULL /\ Len(call.trace) = 1)
            /\ TTSCalls # <<>> =>
                   (reached /\ reply.kind = "text" /\ reply.text # NULL)
            /\ (reached /\ reply.kind = "text" /\ reply.text # NULL) => TTSCalls # <<>>

\* C16 witness: the summary call came back with quota exhausted, while the
\* TTS service would have answered with audio
C16_Witness ==
    /\ IsAudioCall
    /\ Len(call.trace) = 1
    /\ call.trace[1].outcome = "ResourceExhausted"
    /\ call.tts[1].kind = "audio"
    /\ call.ret = NULL

\* ------------------------------------------------------------------------
\* C18. In a process whose LLM client is not initialized (key missing or
\* "x", or genai.Client failing), or whose GEMINI_MODEL of config.py is None,
\* a generation makes no LLM call, loads no fallback document, sleeps for no
\* retry, catches nothing, schedules no restart, stores no result, and ends
\* idle with the counter 0; run_planning_agent_gemini, when it is invoked,
\* returns null. With the client not initialized,
\* generate_daily_summary_audio returns null with no LLM and no TTS call,
\* whatever the day.
\* ------------------------------------------------------------------------
KeyMissing == env.GEMINI_API_KEY \in {"", "x"}
ClientNotInitialized == KeyMissing \/ ~env.agents_client
ModelNotConfigured == KeyMissing \/ env.GEMINI_MODEL = "" \/ ~env.config_client

C18_FailsFast ==
    (ClientNotInitialized \/ ModelNotConfigured) =>
        /\ pc \in {"idle", "run"}
        /\ inv.status \in {"none", "returned"}
        /\ inv.calls = <<>>
        /\ inv.loads = 0
        /\ inv.waits = 0
        /\ inv.ret = NULL
        /\ app_retry_count = 0
        /\ delay_until = 0
        /\ gen.invocations <= 1
        /\ gen.catches = 0 /\ gen.restarts = 0 /\ gen.mocks = 0
        /\ itinerary_data = NULL
        /\ ~itinerary_generated
        /\ (generate_triggered => (pc = "run" /\ gen = NoGen))
        /\ ClientNotInitialized =>
               \A day_data \in FnDays :
               \A summary_reply \in SummaryReplies(day_data), tts \in TTSReplySeqs(day_data) :
                   generate_daily_summary_audio(env, day_data, summary_reply, tts)
                       = [trace |-> <<>>, ret |-> NULL]

\* C18 witness: the key is there but genai.Client failed in agents.py;
\* run_planning_agent_gemini was invoked and returned, and the session is idle
C18_Witness ==
    /\ ~KeyMissing
    /\ ~env.agents_client
    /\ inv.status = "returned"
    /\ gen.invocations = 1
    /\ pc = "idle"
    /\ ~generate_triggered

\* ------------------------------------------------------------------------
\* C19 (as amended). With GOOGLE_MAPS_API_KEY set, calculate_travel_time
\* requests walking, transit, driving in that order up to the first mode
\* whose request succeeds with status OK and a route, and returns the summary
\* of that route: a walking route of more than 1200 seconds is labelled
\* "Transit/Bus" with the advice note, a shorter one "Walking"; a transit
\* route carries the travel mode of its first step and the ticket note; a
\* driving route is labelled "Driving". With no route for any mode the three
\* are requested and the "Route not found" string is returned. With the key
\* missing no mode is requested and the string says that the key is missing.
\* ------------------------------------------------------------------------
IsTravelCall == call.fn = "calculate_travel_time"
PreferenceOrder == <<"walking", "transit", "driving">>
HasRoute(reply) == reply.kind = "json" /\ reply.status = "OK" /\ reply.routes # <<>>

\* position in PreferenceOrder of the first mode with a route, 0 without one
FirstWithRoute(replies) ==
    IF \E k \in 1..3 : HasRoute(replies[PreferenceOrder[k]])
    THEN CHOOSE k \in 1..3 :
             /\ HasRoute(replies[PreferenceOrder[k]])
             /\ \A j \in 1..(k - 1) : ~HasRoute(replies[PreferenceOrder[j]])
    ELSE 0

ExpectedSummary(mode, leg) ==
    LET head == "Travel time: " \o leg.duration.text \o ". Distance: "
                \o leg.distance.text \o ". Transport: "
    IN  CASE mode = "walking" /\ leg.duration.value > 1200 ->
                 head \o "Transit/Bus. Note: Consider public transport or taxi since walking is long.."
          [] mode = "walking" -> head \o "Walking. Note: None."
          [] mode = "transit" ->
                 head \o (IF leg.steps # <<>> /\ "travel_mode" \in DOMAIN leg.steps[1]
                          THEN leg.steps[1].travel_mode ELSE "Transit")
                      \o ". Note: Requires purchasing a ticket.."
          [] OTHER -> head \o "Driving. Note: None."

RouteNotFound ==
    "Travel time: Route not found for walking, transit, or driving between "
        \o call.from_location \o " and " \o call.to_location \o ". Check locations."

\* what the claim says of a call, read off the arguments
TravelContract ==
    LET replies == call.replies
        first == FirstWithRoute(replies)
    IN  IF first = 0
        THEN call.trace = PreferenceOrder /\ call.ret = RouteNotFound
        ELSE /\ call.trace = SubSeq(PreferenceOrder, 1, first)
             /\ call.ret = ExpectedSummary(PreferenceOrder[first],
                                           replies[PreferenceOrder[first]].routes[1])

C19_TravelTimeOrder ==
    IsTravelCall =>
        IF call.key # ""
        THEN TravelContract
        ELSE /\ call.trace = <<>>
             /\ call.ret = "Error: GOOGLE_MAPS_API_KEY is missing. Cannot calculate real travel time between "
                           \o call.from_location \o " and " \o call.to_location \o "."

\* C19 witness: walking is the only mode with a route, of 1201 seconds, and
\* the summary says Transit/Bus
C19_Witness ==
    /\ IsTravelCall
    /\ call.key # ""
    /\ HasRoute(call.replies.walking)
    /\ call.replies.walking.routes[1].duration.value = 1201
    /\ ~HasRoute(call.replies.transit)
    /\ ~HasRoute(call.replies.driving)
    /\ call.trace = <<"walking">>
    /\ call.ret = "Travel time: 21 mins. Distance: 1.7 km. Transport: Transit/Bus. Note: Consider public transport or taxi since walking is long.."

\* C19 as stated: every call requests the modes in order and returns the
\* summary of the first route, or the "Route not found" string
C19_Original == IsTravelCall => TravelContract

\* ------------------------------------------------------------------------
\* C20 (as amended). get_location_details returns the note with the
\* estimated duration of 1.5 hours and the cost Free when the place is not
\* found and when the details are unavailable. With GOOGLE_MAPS_API_KEY
\* missing it makes no request and returns a string that says so, and when a
\* request fails it returns a string with the failure; neither carries the
\* estimate. On success it returns the summary with type, rating and the
\* open or closed status (or "Unknown Hours").
\* ------------------------------------------------------------------------
IsLocationCall == call.fn = "get_location_details"
EstimateNote == " Using estimated duration of 1.5 hours and cost of Free."

\* the strings that end in the estimate note
DegradedDefaults(place_name) ==
    { "Details for " \o place_name \o ": " \o why \o EstimateNote :
          why \in {"Place not found.", "Detailed info unavailable."} }

PlaceFound == call.find_reply.kind = "json"
                 /\ call.find_reply.status = "OK"
                 /\ call.find_reply.candidates # <<>>
DetailsFound == call.details_reply.kind = "json"
                   /\ call.details_reply.status = "OK"
                   /\ call.details_reply.result # NULL
LookupSucceeds == call.key # "" /\ PlaceFound /\ DetailsFound

ExpectedDetails ==
    LET result == call.details_reply.result
        has(f) == f \in DOMAIN result
    IN  "Location: " \o (IF has("name") THEN result.name ELSE call.place_name)
        \o " (" \o (IF has("formatted_address") THEN result.formatted_address
                    ELSE "Unknown Address")
        \o "). Type: " \o Join(IF has("types") THEN result.types ELSE <<>>)
        \o ". Rating: " \o (IF has("rating") THEN result.rating ELSE "N/A") \o "/5. "
        \o (IF has("opening_hours") /\ "open_now" \in DOMAIN result.opening_hours
            THEN IF result.opening_hours.open_now
                 THEN "Status: Open Now. Full Hours Check Recommended."
                 ELSE "Status: Closed Now. Full Hours Check Recommended."
            ELSE "Unknown Hours")
        \o ". LLM Planner Note: Estimate duration based on attraction type (e.g., 2 hours for a major museum)."

C20_LocationDetails ==
    IsLocationCall =>
        LET place_name == call.place_name
            find_reply == call.find_reply
            details_reply == call.details_reply
        IN  CASE call.key = "" ->
                    /\ call.trace = <<>>
                    /\ call.ret = "Error: GOOGLE_MAPS_API_KEY is missing. Cannot fetch real details for "
                                  \o place_name \o "."
                    /\ call.ret \notin DegradedDefaults(place_name)
              [] find_reply.kind = "RequestException" ->
                    /\ call.trace = <<"findplacefromtext">>
                    /\ call.ret = "Details for " \o place_name
                                  \o ": Network/API Request failed: " \o find_reply.message
                    /\ call.ret \notin DegradedDefaults(place_name)
              [] ~PlaceFound ->
                    /\ call.trace = <<"findplacefromtext">>
                    /\ call.ret = "Details for " \o place_name \o ": Place not found."
                                  \o EstimateNote
              [] details_reply.kind = "RequestException" ->
                    /\ call.trace = <<"findplacefromtext", "details">>
                    /\ call.ret = "Details for " \o place_name
                                  \o ": Network/API Request failed: " \o details_reply.message
                    /\ call.ret \notin DegradedDefaults(place_name)
              [] ~DetailsFound ->
                    /\ call.trace = <<"findplacefromtext", "details">>
                    /\ call.ret = "Details for " \o place_name
                                  \o ": Detailed info unavailable." \o EstimateNote
              [] OTHER ->
                    /\ call.trace = <<"findplacefromtext", "details">>
                    /\ call.ret = ExpectedDetails

\* C20 witness: the place was found, the details request came back without
\* a result, and the function returned the estimate note
C20_Witness ==
    /\ IsLocationCall
    /\ call.key # ""
    /\ PlaceFound
    /\ call.details_reply.kind = "json"
    /\ ~DetailsFound
    /\ call.ret = "Details for Prado Museum: Detailed info unavailable. Using estimated duration of 1.5 hours and cost of Free."

\* C20 as stated: every failure returns the estimate note, success the
\* summary
C20_Original ==
    IsLocationCall =>
        IF LookupSucceeds
        THEN call.ret = ExpectedDetails
        ELSE call.ret \in DegradedDefaults(call.place_name)

\* ------------------------------------------------------------------------
\* C21. Whenever an itinerary is stored, every audio_day_<i> entry holds the
\* audio of the Day that the stored itinerary has at index i.
\* ------------------------------------------------------------------------
C21_AudioOfStoredDay ==
    \A i \in 0..(MAX_DIAS - 1) :
        (itinerary_data # NULL /\ audio[i] # NULL) =>
            /\ i < Len(itinerary_data.daily_itinerary)
            /\ audio[i] = AudioBytes(itinerary_data.daily_itinerary[i + 1])

\* ------------------------------------------------------------------------
\* C22. In every state of the session itinerary_generated implies that
\* itinerary_data is not None, generate_triggered and itinerary_generated do
\* not hold together, and while generate_triggered holds (a generation runs
\* or waits for an outer retry) itinerary_data is None.
\* ------------------------------------------------------------------------
C22_FlagsAgree ==
    /\ itinerary_generated => itinerary_data # NULL
    /\ ~(generate_triggered /\ itinerary_generated)
    /\ generate_triggered => itinerary_data = NULL

\* C22 witness: a generation waits for an outer retry; the audio entry shows
\* that an itinerary of an earlier request had been on display
C22_Witness ==
    /\ generate_triggered
    /\ app_retry_count > 0
    /\ delay_until > 0
    /\ audio[0] # NULL
    /\ itinerary_data = NULL
    /\ ~itinerary_generated

\* ------------------------------------------------------------------------
\* C23. Whenever an itinerary is stored, the last invocation of
\* run_planning_agent_gemini, and every LLM call it made, was for the
\* destination, day count and theme that the inputs show, and the stored
\* itinerary is what that invocation returned or what
\* get_mock_itinerary_with_expansion built for those three values after it
\* raised.
\* ------------------------------------------------------------------------
CurrentRequest == Request(dest_input, days_input, theme_input)

C23_StoredForCurrentInputs ==
    itinerary_data # NULL =>
        /\ inv.request = CurrentRequest
        /\ \A k \in 1..NCalls : inv.calls[k].request = CurrentRequest
        /\ \/ /\ inv.status = "returned"
              /\ gen.mocks = 0
              /\ itinerary_data = inv.ret
           \/ /\ inv.status = "raised"
              /\ gen.mocks = 1
              /\ itinerary_data = gen.mock_ret
              /\ itinerary_data.destination = dest_input
              /\ Len(itinerary_data.daily_itinerary) = days_input
              /\ itinerary_data.main_theme = "[MOCK/RETRY FAIL] " \o theme_input

\* C23 witness: after an outer retry an itinerary is stored for inputs that
\* are not the ones the session started with
C23_Witness ==
    /\ itinerary_data # NULL
    /\ gen.catches > 0
    /\ gen.mocks = 0
    /\ dest_input = "Lisbon, Portugal"
    /\ days_input = MIN_DIAS
    /\ inv.request.destination = "Lisbon, Portugal"
    /\ inv.request.days = MIN_DIAS

\* ------------------------------------------------------------------------
\* C24. The loop variable of agents.py:81 counts the LLM calls of the current
\* invocation only: it is 0 when an invocation starts, whatever it was when
\* the previous one raised, and the step that advances it leaves
\* app_retry_count alone. app_retry_count goes up by one only when main
\* catches the TransientRetryError of an invocation, which leaves the loop
\* variable alone, and otherwise only falls back to 0. So the calls of
\* generate_content since the last user event number at most
\* MAX_JSON_RETRIES for each invocation made, at most
\* MAX_APP_RETRIES * MAX_JSON_RETRIES in all, and app_retry_count stays
\* within 0..MAX_APP_RETRIES.
\* ------------------------------------------------------------------------
C24_CountersInState ==
    /\ call.n <= MAX_APP_RETRIES * MAX_JSON_RETRIES
    /\ call.n <= gen.invocations * MAX_JSON_RETRIES
    /\ app_retry_count \in 0..MAX_APP_RETRIES
    /\ attempt \in 0..(MAX_JSON_RETRIES - 1)
    /\ NCalls <= MAX_JSON_RETRIES
    /\ pc = "attempt" => attempt = NCalls
    /\ pc = "sleep" => attempt + 1 = NCalls

C24_CountersInStep ==
    /\ gen'.invocations = gen.invocations + 1 =>
           /\ attempt' = 0
           /\ inv'.calls = <<>>
           /\ app_retry_count' \in {app_retry_count, 0}
           /\ call' = call
    /\ attempt' # attempt =>
           \/ attempt' = 0
           \/ /\ attempt' = attempt + 1
              /\ pc = "sleep"
              /\ app_retry_count' = app_retry_count
              /\ call' = call
    /\ app_retry_count' # app_retry_count =>
           \/ app_retry_count' = 0
           \/ /\ app_retry_count' = app_retry_count + 1
              /\ inv'.status = "raised"
              /\ attempt' = attempt
    /\ call'.n # call.n =>
           \/ call'.n = 0
           \/ /\ call'.n = call.n + 1
              /\ pc = "attempt"
              /\ Len(inv'.calls) = NCalls + 1

C24_RetryCountersIndependent ==
    /\ []C24_CountersInState
    /\ [][C24_CountersInStep]_vars

\* C24 witness: the third invocation of a generation has raised after its
\* fifth call, the fifteenth since the click
C24_Witness ==
    /\ call = Counting(MAX_APP_RETRIES * MAX_JSON_RETRIES)
    /\ gen.invocations = MAX_APP_RETRIES
    /\ app_retry_count = MAX_APP_RETRIES
    /\ attempt = MAX_JSON_RETRIES - 1
    /\ NCalls = MAX_JSON_RETRIES
    /\ pc = "exhausted"

\* ------------------------------------------------------------------------
\* C25. After either fallback expansion the synthesized Days are, index by
\* index, the Days with the day_name and date of their own index; no two of
\* them have an object in common, and none has an object in common with the
\* template Day or with the dict dumped from it. When one synthesized Day is
\* then changed (its day_name or date, its activities or its logistics list,
\* or an item of either), every other synthesized Day and the template Day
\* still show what they showed before.
\* ------------------------------------------------------------------------
IsExpansion == call.fn = "expansion" /\ call.new_itinerary # <<>>

\* the Days the expansion returns, as values
ExpandedDays ==
    IF call.caller = "run_planning_agent_gemini"
    THEN QuotaFallback(fallback_file, dest_input, call.days, theme_input).daily_itinerary
    ELSE get_mock_itinerary_with_expansion(fallback_file, dest_input, call.days,
                                           theme_input).daily_itinerary

TemplateObjects ==
    DayObjects(call.heap, call.template) \cup DayObjects(call.heap, call.template_day_dict)

C25_DaysShareNothing ==
    IsExpansion =>
        /\ Len(call.new_itinerary) = call.days
        /\ \A i \in 1..call.days :
              /\ i # call.written =>
                     DayView(call.heap, call.new_itinerary[i]) = ExpandedDays[i]
              /\ DayObjects(call.heap, call.new_itinerary[i]) \cap TemplateObjects = {}
              /\ \A j \in 1..call.days :
                     i # j => DayObjects(call.heap, call.new_itinerary[i])
                                \cap DayObjects(call.heap, call.new_itinerary[j]) = {}
        /\ DayView(call.heap, call.template) =
               load_fallback_itinerary(fallback_file).daily_itinerary[1]

\* C25 witness: of three synthesized Days the second has had the name of
\* its first activity changed, which the first and the third do not show
C25_Witness ==
    /\ IsExpansion
    /\ call.days = 3
    /\ call.written = 2
    /\ call.write = "day.activities[0].name = s"
    /\ DayView(call.heap, call.new_itinerary[2]).activities[1].name = "Changed"
    /\ DayView(call.heap, call.new_itinerary[2]) # ExpandedDays[2]
    /\ DayView(call.heap, call.new_itinerary[1]).activities[1].name = "Louvre"
    /\ DayView(call.heap, call.new_itinerary[3]).activities[1].name = "Louvre"

====
